---- MODULE Spec2Model ----
(***************************************************************************)
(* Tenant resolution, the per-schema model cache, tenant creation and      *)
(* deletion, and the tenant / JWT / RBAC request pipeline of the           *)
(* multi-tenant backend.                                                   *)
(*                                                                         *)
(* Strings that the code inspects character by character (tenant names,    *)
(* schemas, owner-id values) are sequences of one-character strings.       *)
(*                                                                         *)
(* An `await` of the code is one step of the model: the step performs the  *)
(* awaited storage operation and the synchronous code that follows it up   *)
(* to the next await.  Synchronous code (all of TenantCacheService) never  *)
(* interleaves with anything, as on the single JavaScript thread.          *)
(***************************************************************************)
EXTENDS Integers, Sequences, FiniteSets, TLC

VARIABLES
    registry,      \* rows of public.tenants, committed or held by a transaction
    nextId,        \* the serial of tenants.id
    storage,       \* schema -> "none" | "empty" | "tables"
    tenantModels,  \* TenantCacheService.tenantModels (a Map: its domain is its keys)
    loadedAt,      \* TenantCacheService.loadedAt     (a Map likewise)
    loads,         \* number of initModels invocations so far (object identity)
    initCalls,     \* per key, since the key was last removed: initModels
                   \* invocations (all) and those that stored an entry (ok)
    ct,            \* the createTenant calls
    dt,            \* the deleteTenant call
    req,           \* the requests
    now,           \* wall clock, in ticks
    ret,           \* what the last direct call (TenantCacheService, error boundary) returned
    users,         \* per schema, the rows of its users table
    tokens         \* the tokens that login has handed out

vars == <<registry, nextId, storage, tenantModels, loadedAt, loads, initCalls,
          ct, dt, req, now, ret,
                   users, tokens>>

----------------------------------------------------------------------------
(* Bounds *)

MaxLoads == 3
MaxTenantId == 3
MaxNow == 2

----------------------------------------------------------------------------
(* Characters and strings *)

LowerSeq == <<"a","b","c","d","e","f","g","h","i","j","k","l","m",
              "n","o","p","q","r","s","t","u","v","w","x","y","z">>
UpperSeq == <<"A","B","C","D","E","F","G","H","I","J","K","L","M",
              "N","O","P","Q","R","S","T","U","V","W","X","Y","Z">>
DigitSeq == <<"0","1","2","3","4","5","6","7","8","9">>

Range(f) == {f[i] : i \in DOMAIN f}

LowerChars == Range(LowerSeq)
UpperChars == Range(UpperSeq)
DigitChars == Range(DigitSeq)

\* String.prototype.toLowerCase, one character
LowerChar(c) ==
    IF c \in UpperChars
    THEN LowerSeq[CHOOSE i \in DOMAIN UpperSeq : UpperSeq[i] = c]
    ELSE c

toLowerCase(s) == [i \in 1..Len(s) |-> LowerChar(s[i])]

\* the character class [a-z0-9_]
IsSchemaChar(c) == c \in LowerChars \cup DigitChars \cup {"_"}

\* the character class [a-zA-Z0-9_-]
IsNameChar(c) == IsSchemaChar(c) \/ c \in UpperChars \/ c = "-"

\* A derivation that puts an underscore where a character does not match.
DeriveSchemaUnderscore(name) ==
    [i \in 1..Len(name) |->
        IF IsSchemaChar(LowerChar(name[i])) THEN LowerChar(name[i]) ELSE "_"]

\* name.toLowerCase().replace(/[^a-z0-9_]/g, '').trim()
DeriveSchema(name) == SelectSeq(toLowerCase(name), IsSchemaChar)

\* /^[a-zA-Z0-9_-]+$/.test(s)
MatchesNameRegex(s) == Len(s) >= 1 /\ \A i \in 1..Len(s) : IsNameChar(s[i])

reservedWords ==
    { <<"p","u","b","l","i","c">>,
      <<"i","n","f","o","r","m","a","t","i","o","n","_","s","c","h","e","m","a">>,
      <<"p","g","_","c","a","t","a","l","o","g">>,
      <<"p","g","_","t","o","a","s","t">> }

\* The tenant names and x-tenant-id headers that calls and requests are drawn from.
NameAb == <<"a", "b">>
NameADashB == <<"A", "-", "b">>
NameB == <<"b">>
NamePublic == <<"P","u","b","l","i","c">>
NameBang == <<"a", "!">>
NameOnlyBang == <<"!">>

Names == {NameAb, NameADashB, NameB}
Schemas == {DeriveSchema(n) : n \in Names}

----------------------------------------------------------------------------
(* TenantCacheService *)

FsOutcomes == {"ok", "empty", "throw"}

NoModels == [obj |-> 0, schema |-> <<>>, names |-> {}]

\* models/initModels.js: one model per file of models/tenant, each defined with
\* the schema it is given.  obj is the identity of the object that is returned.
initModels(schema, obj, fs) ==
    [obj |-> obj, schema |-> schema, names |-> IF fs = "ok" THEN {"User"} ELSE {}]

\* The cache as one value: the two Maps and the two counters.
Cache == [tenantModels |-> tenantModels, loadedAt |-> loadedAt,
          loads |-> loads, initCalls |-> initCalls]

MapSet(m, k, v) == [x \in DOMAIN m \cup {k} |-> IF x = k THEN v ELSE m[x]]
MapDelete(m, k) == [x \in DOMAIN m \ {k} |-> m[x]]

\* getModels with a cache key that ignores the schema: whatever entry the cache
\* holds is returned.
GetModelsAnyKey(c, schema, tenantId, fs) ==
    IF DOMAIN c.tenantModels # {}
    THEN [c |-> c, threw |-> FALSE,
          models |-> c.tenantModels[CHOOSE k \in DOMAIN c.tenantModels : TRUE].models]
    ELSE LET obj == c.loads + 1
             models == initModels(schema, obj, fs)
             called == [c EXCEPT !.loads = obj, !.initCalls[schema].all = @ + 1]
         IN  IF fs = "throw" \/ models.names = {}
             THEN [c |-> called, threw |-> TRUE, models |-> NoModels]
             ELSE [c |-> [called EXCEPT
                            !.initCalls[schema].ok = @ + 1,
                            !.tenantModels = MapSet(@, schema,
                                [models |-> models, tenantId |-> tenantId,
                                 schema |-> schema, loadedAt |-> now]),
                            !.loadedAt = MapSet(@, schema, now)],
                   threw |-> FALSE, models |-> models]

\* getModels that returns what it constructed and forgets to store it.
GetModelsNoStore(c, schema, tenantId, fs) ==
    IF schema \in DOMAIN c.tenantModels
    THEN [c |-> c, threw |-> FALSE, models |-> c.tenantModels[schema].models]
    ELSE LET obj == c.loads + 1
             models == initModels(schema, obj, fs)
             called == [c EXCEPT !.loads = obj, !.initCalls[schema].all = @ + 1]
         IN  IF fs = "throw" \/ models.names = {}
             THEN [c |-> called, threw |-> TRUE, models |-> NoModels]
             ELSE [c |-> called, threw |-> FALSE, models |-> models]

\* getModels without the has() test: every call constructs and overwrites.
GetModelsAlwaysLoad(c, schema, tenantId, fs) ==
    LET obj == c.loads + 1
        models == initModels(schema, obj, fs)
        called == [c EXCEPT !.loads = obj, !.initCalls[schema].all = @ + 1]
    IN  IF fs = "throw" \/ models.names = {}
        THEN [c |-> called, threw |-> TRUE, models |-> NoModels]
        ELSE [c |-> [called EXCEPT
                       !.initCalls[schema].ok = @ + 1,
                       !.tenantModels = MapSet(@, schema,
                           [models |-> models, tenantId |-> tenantId,
                            schema |-> schema, loadedAt |-> now]),
                       !.loadedAt = MapSet(@, schema, now)],
              threw |-> FALSE, models |-> models]

\* getModels that stores a failed construction before it throws.
GetModelsKeepFailed(c, schema, tenantId, fs) ==
    IF schema \in DOMAIN c.tenantModels
    THEN [c |-> c, threw |-> c.tenantModels[schema].models.names = {},
          models |-> c.tenantModels[schema].models]
    ELSE LET obj == c.loads + 1
             models == initModels(schema, obj, fs)
             stored == [c EXCEPT
                          !.loads = obj, !.initCalls[schema].all = @ + 1,
                          !.tenantModels = MapSet(@, schema,
                              [models |-> models, tenantId |-> tenantId,
                               schema |-> schema, loadedAt |-> now]),
                          !.loadedAt = MapSet(@, schema, now)]
         IN  [c |-> stored, threw |-> fs = "throw" \/ models.names = {},
              models |-> IF fs = "ok" THEN models ELSE NoModels]

\* TenantCacheService.getModels(sequelize, schema, tenantId).  fs is what
\* initModels meets on this call; threw tells whether the call throws.
GetModels(c, schema, tenantId, fs) ==
    IF schema \in DOMAIN c.tenantModels
    THEN [c |-> c, threw |-> FALSE, models |-> c.tenantModels[schema].models]
    ELSE LET obj == c.loads + 1
             models == initModels(schema, obj, fs)
             called == [c EXCEPT !.loads = obj, !.initCalls[schema].all = @ + 1]
         IN  IF fs = "throw" \/ models.names = {}
             THEN [c |-> called, threw |-> TRUE, models |-> NoModels]
             ELSE [c |-> [called EXCEPT
                            !.initCalls[schema].ok = @ + 1,
                            !.tenantModels = MapSet(@, schema,
                                [models |-> models, tenantId |-> tenantId,
                                 schema |-> schema, loadedAt |-> now]),
                            !.loadedAt = MapSet(@, schema, now)],
                   threw |-> FALSE, models |-> models]

\* TenantCacheService.getCacheEntry(schema)
NoEntry == [models |-> NoModels, tenantId |-> 0, schema |-> <<>>, loadedAt |-> 0]
getCacheEntry(c, schema) ==
    IF schema \in DOMAIN c.tenantModels THEN c.tenantModels[schema] ELSE NoEntry

\* TenantCacheService.hasModels(schema)
hasModels(c, schema) == schema \in DOMAIN c.tenantModels

\* clearSchema that forgets the second Map.
ClearSchemaModelsOnly(c, schema) ==
    IF schema \in DOMAIN c.tenantModels
    THEN [c |-> [c EXCEPT !.tenantModels = MapDelete(@, schema),
                          !.initCalls[schema] = [all |-> 0, ok |-> 0]],
          result |-> TRUE]
    ELSE [c |-> c, result |-> FALSE]

\* TenantCacheService.clearSchema(schema)
ClearSchema(c, schema) ==
    IF schema \in DOMAIN c.tenantModels
    THEN [c |-> [c EXCEPT !.tenantModels = MapDelete(@, schema),
                          !.loadedAt = MapDelete(@, schema),
                          !.initCalls[schema] = [all |-> 0, ok |-> 0]],
          result |-> TRUE]
    ELSE [c |-> c, result |-> FALSE]

\* TenantCacheService.reloadSchema(sequelize, schema, tenantId)
ReloadSchema(c, schema, tenantId, fs) ==
    GetModels(ClearSchema(c, schema).c, schema, tenantId, fs)

\* TenantCacheService.clearAll()
ClearAll(c) ==
    [c EXCEPT !.tenantModels = << >>,
              !.loadedAt = << >>,
              !.initCalls = [k \in DOMAIN @ |->
                               IF k \in DOMAIN c.tenantModels
                               THEN [all |-> 0, ok |-> 0] ELSE @[k]]]

\* null, where a Date is expected
NoDate == 0 - 1

Min(S) == CHOOSE x \in S : \A y \in S : x <= y
Max(S) == CHOOSE x \in S : \A y \in S : x >= y

\* _getOldestCacheTime() and _getNewestCacheTime()
getOldestCacheTime(c) ==
    IF DOMAIN c.loadedAt = {} THEN NoDate ELSE Min(Range(c.loadedAt))
getNewestCacheTime(c) ==
    IF DOMAIN c.loadedAt = {} THEN NoDate ELSE Max(Range(c.loadedAt))

\* TenantCacheService.getStats(); the array of keys is kept as a set
getStats(c) ==
    [totalSchemas |-> Cardinality(DOMAIN c.tenantModels),
     schemas |-> DOMAIN c.tenantModels,
     memoryUsage |-> Cardinality(DOMAIN c.tenantModels) * 50,
     oldestCache |-> getOldestCacheTime(c),
     newestCache |-> getNewestCacheTime(c)]

\* TenantCacheService.getStaleEntries(minutes) at time t; the age is given in
\* ticks of the clock
getStaleEntries(c, t, age) ==
    {schema \in DOMAIN c.loadedAt : c.loadedAt[schema] < t - age}

\* The cache variables take the value c.
SetCache(c) ==
    /\ tenantModels' = c.tenantModels
    /\ loadedAt' = c.loadedAt
    /\ loads' = c.loads
    /\ initCalls' = c.initCalls

\* A call that may construct needs room under the bound on constructions.
CanLoad(schema) == schema \in DOMAIN tenantModels \/ loads < MaxLoads

\* Direct calls of the methods of the TenantCacheService singleton.
NoReturn == [op |-> "none", key |-> <<>>, value |-> FALSE]

\* The call of method op on key returns value.
Returns(op, key, value) == ret' = [op |-> op, key |-> key, value |-> value]

OtherThanCache == <<registry, nextId, storage, ct, dt, req, now, users, tokens>>

GetModelsCall(schema, tenantId, fs) ==
    /\ CanLoad(schema)
    /\ LET out == GetModels(Cache, schema, tenantId, fs)
       IN  /\ SetCache(out.c)
           /\ Returns("getModels", schema, [threw |-> out.threw, models |-> out.models])
    /\ UNCHANGED OtherThanCache

GetCacheEntryCall(schema) ==
    /\ Returns("getCacheEntry", schema, getCacheEntry(Cache, schema))
    /\ UNCHANGED <<tenantModels, loadedAt, loads, initCalls>>
    /\ UNCHANGED OtherThanCache

HasModelsCall(schema) ==
    /\ Returns("hasModels", schema, hasModels(Cache, schema))
    /\ UNCHANGED <<tenantModels, loadedAt, loads, initCalls>>
    /\ UNCHANGED OtherThanCache

ClearSchemaCall(schema) ==
    /\ LET out == ClearSchema(Cache, schema)
       IN  /\ SetCache(out.c)
           /\ Returns("clearSchema", schema, out.result)
    /\ UNCHANGED OtherThanCache

ClearAllCall ==
    /\ SetCache(ClearAll(Cache))
    /\ Returns("clearAll", <<>>, FALSE)
    /\ UNCHANGED OtherThanCache

GetStatsCall ==
    /\ Returns("getStats", <<>>, getStats(Cache))
    /\ UNCHANGED <<tenantModels, loadedAt, loads, initCalls>>
    /\ UNCHANGED OtherThanCache

ReloadSchemaCall(schema, tenantId, fs) ==
    /\ loads < MaxLoads
    /\ LET out == ReloadSchema(Cache, schema, tenantId, fs)
       IN  /\ SetCache(out.c)
           /\ Returns("reloadSchema", schema, [threw |-> out.threw, models |-> out.models])
    /\ UNCHANGED OtherThanCache

\* getStaleEntries that evicts what it finds.
GetStaleEntriesCallEvicting(age) ==
    /\ Returns("getStaleEntries", <<>>, getStaleEntries(Cache, now, age))
    /\ LET stale == getStaleEntries(Cache, now, age)
       IN  /\ tenantModels' = [k \in DOMAIN tenantModels \ stale |-> tenantModels[k]]
           /\ loadedAt' = [k \in DOMAIN loadedAt \ stale |-> loadedAt[k]]
    /\ UNCHANGED <<loads, initCalls>>
    /\ UNCHANGED OtherThanCache

GetStaleEntriesCall(age) ==
    /\ Returns("getStaleEntries", <<>>, getStaleEntries(Cache, now, age))
    /\ UNCHANGED <<tenantModels, loadedAt, loads, initCalls>>
    /\ UNCHANGED OtherThanCache

----------------------------------------------------------------------------
(* The tenant registry (public.tenants) and the storage schemas *)

\* tx: the createTenant call whose open transaction inserted the row ("none"
\* once committed); del: the deleteTenant call whose open transaction destroyed it.
Row(id, name, schema, tx) ==
    [id |-> id, name |-> name, schema |-> schema, isActive |-> TRUE,
     tx |-> tx, del |-> "none"]

NoTenant == [id |-> 0, name |-> <<>>, schema |-> <<>>, isActive |-> FALSE,
             tx |-> "none", del |-> "none"]

\* What a query outside any transaction sees (read committed).
Committed == {t \in registry : t.tx = "none"}

\* Tenant.findOne({ where: { name } })
findOne(name) ==
    IF \E t \in Committed : t.name = name
    THEN CHOOSE t \in Committed : t.name = name
    ELSE NoTenant

\* Tenant.findByPk(id)
findByPk(id) ==
    IF \E t \in Committed : t.id = id
    THEN CHOOSE t \in Committed : t.id = id
    ELSE NoTenant

----------------------------------------------------------------------------
(* Requests and the tenant middleware *)

Reqs == {"r1", "r2", "r3"}

MaxHeaderLen == 50

NoCtx == [id |-> 0, name |-> <<>>, schema |-> <<>>, models |-> NoModels,
          isActive |-> FALSE, cacheInfo |-> NoEntry]
NoUser == [userId |-> 0, role |-> "none", tenantId |-> 0]
NoToken == [sig |-> "none", userId |-> 0, email |-> FALSE, role |-> "none",
            tenantId |-> 0, iat |-> 0, exp |-> 0, nbf |-> 0]
Undefined == [k |-> "undef", s |-> <<>>, n |-> 0]

\* No policy middleware is called on the request outside a router.
NoPolicy == [name |-> "none", roles |-> {}, minimumRole |-> "none"]

IdleReq ==
    [pc |-> "idle", header |-> <<>>, route |-> "none", policy |-> NoPolicy,
     authorization |-> [bearer |-> FALSE, token |-> NoToken],
     params |-> Undefined, body |-> Undefined, query |-> Undefined,
     idx |-> 0, row |-> NoTenant, models |-> NoModels, tenant |-> NoCtx,
     user |-> NoUser, sent |-> <<>>, nexts |-> <<>>, ran |-> <<>>]

\* res.status(status).json({ error, code }) by the stage: the request is over.
Respond(q, stage, status, code) ==
    [q EXCEPT !.pc = "done",
              !.sent = Append(@, [stage |-> stage, status |-> status, code |-> code]),
              !.ran = Append(@, stage)]

\* tenantMiddleware up to its first await: the header checks.
TenantValidate(r) ==
    /\ req[r].pc = "tenant"
    /\ LET q == req[r]
           tenantName == q.header
       IN  req' = [req EXCEPT ![r] =
                IF tenantName = <<>>
                THEN Respond(q, "tenant", 400, "Missing tenant ID in x-tenant-id header")
                ELSE IF ~MatchesNameRegex(tenantName)
                THEN Respond(q, "tenant", 400, "Invalid tenant ID format")
                ELSE IF Len(tenantName) > MaxHeaderLen
                THEN Respond(q, "tenant", 400, "Tenant ID too long")
                ELSE [q EXCEPT !.pc = "find"]]
    /\ UNCHANGED <<registry, nextId, storage, tenantModels, loadedAt, loads,
                   initCalls, ct, dt, now, ret,
                   users, tokens>>

\* await Tenant.findOne, then the code up to await sequelize.authenticate().
TenantFindLoadFirst(r) ==
    /\ req[r].pc = "find"
    /\ LET q == req[r]
           tenant == findOne(q.header)
       IN  IF tenant = NoTenant
           THEN /\ req' = [req EXCEPT ![r] = Respond(q, "tenant", 404, "Tenant not found")]
                /\ UNCHANGED <<tenantModels, loadedAt, loads, initCalls>>
           ELSE /\ CanLoad(tenant.schema)
                /\ \E fs \in FsOutcomes :
                     LET g == GetModels(Cache, tenant.schema, tenant.id, fs)
                     IN  /\ SetCache(g.c)
                         /\ req' = [req EXCEPT ![r] =
                              IF ~tenant.isActive
                              THEN Respond(q, "tenant", 403, "Tenant is inactive")
                              ELSE IF g.threw \/ g.models.names = {}
                              THEN Respond([q EXCEPT !.row = tenant], "tenant", 500,
                                           "Tenant database schema error")
                              ELSE [q EXCEPT !.pc = "probe", !.row = tenant,
                                             !.models = g.models]]
    /\ UNCHANGED <<registry, nextId, storage, ct, dt, now, ret,
                   users, tokens>>

\* await Tenant.findOne, then the code up to await sequelize.authenticate():
\* the not-found and inactive checks and getModels.  When the query fails the
\* outer catch answers.
TenantFind(r) ==
    /\ req[r].pc = "find"
    /\ \/ /\ req' = [req EXCEPT ![r] =
                      Respond(req[r], "tenant", 500, "Internal server error")]
          /\ UNCHANGED <<tenantModels, loadedAt, loads, initCalls>>
       \/ LET q == req[r]
              tenant == findOne(q.header)
          IN  IF tenant = NoTenant
              THEN /\ req' = [req EXCEPT ![r] =
                               Respond(q, "tenant", 404, "Tenant not found")]
                   /\ UNCHANGED <<tenantModels, loadedAt, loads, initCalls>>
              ELSE IF ~tenant.isActive
              THEN /\ req' = [req EXCEPT ![r] =
                               Respond(q, "tenant", 403, "Tenant is inactive")]
                   /\ UNCHANGED <<tenantModels, loadedAt, loads, initCalls>>
              ELSE /\ CanLoad(tenant.schema)
                   /\ \E fs \in FsOutcomes :
                        LET g == GetModels(Cache, tenant.schema, tenant.id, fs)
                        IN  /\ SetCache(g.c)
                            /\ req' = [req EXCEPT ![r] =
                                 IF g.threw \/ g.models.names = {}
                                 THEN Respond([q EXCEPT !.row = tenant], "tenant", 500,
                                              "Tenant database schema error")
                                 ELSE [q EXCEPT !.pc = "probe", !.row = tenant,
                                                !.models = g.models]]
    /\ UNCHANGED <<registry, nextId, storage, ct, dt, now, ret,
                   users, tokens>>

\* testModel.count() succeeds iff the schema the model was defined with holds
\* its tables.
ProbeSucceeds(models) == storage[models.schema] = "tables"

\* req.tenant = { ... } of tenantMiddleware
BindTenantByLoad(q) ==
    [id |-> initCalls[q.row.schema].all, name |-> q.row.name,
     schema |-> q.row.schema,
     models |-> q.models, isActive |-> q.row.isActive,
     cacheInfo |-> getCacheEntry(Cache, q.row.schema)]

BindTenant(q) ==
    [id |-> q.row.id, name |-> q.row.name, schema |-> q.row.schema,
     models |-> q.models, isActive |-> q.row.isActive,
     cacheInfo |-> getCacheEntry(Cache, q.row.schema)]

\* await sequelize.authenticate() and await testModel.count(), then the
\* binding of req.tenant and next().  dbUp: whether the connection answers.
TenantProbe(r) ==
    /\ req[r].pc = "probe"
    /\ \E dbUp \in BOOLEAN :
         LET q == req[r]
         IN  req' = [req EXCEPT ![r] =
                IF ~dbUp \/ ~ProbeSucceeds(q.models)
                THEN Respond(q, "tenant", 500, "Tenant database schema error")
                ELSE [q EXCEPT !.pc = "chain", !.idx = 2,
                               !.tenant = BindTenant(q),
                               !.nexts = Append(@, "tenant"),
                               !.ran = Append(@, "tenant")]]
    /\ UNCHANGED <<registry, nextId, storage, tenantModels, loadedAt, loads,
                   initCalls, ct, dt, now, ret,
                   users, tokens>>

----------------------------------------------------------------------------
(* TenantService.createTenant *)

Calls == {"c1", "c2"}

MaxSchemaLen == 50

\* post: the POST /api/tenants request that made the call, if one did: the
\* name of its body, whether its rules passed, and the response.
NoPost == [on |-> FALSE, name |-> <<>>, valid |-> FALSE, status |-> 0, code |-> "none"]

IdleCall ==
    [pc |-> "idle", name |-> <<>>, schema |-> <<>>, tenantEntry |-> 0,
     schemaCreated |-> FALSE, tablesCreated |-> FALSE, finished |-> FALSE,
     made |-> FALSE, err |-> "none", result |-> "none", post |-> NoPost]

\* throw new Error(...) out of createTenant: the call is over.
Thrown(k, err) == [k EXCEPT !.pc = "done", !.err = err, !.result = "failed"]

\* An error inside the try block: the catch block runs up to its first await,
\* transaction.rollback().
Caught(k, err) == [k EXCEPT !.pc = "rollback", !.err = err]

\* createTenant(name) entered by call k: the synchronous validation, then
\* await sequelize.transaction().
CreateEntry(call, name) ==
    LET schema == DeriveSchema(name)
        k == [call EXCEPT !.name = name, !.schema = schema]
    IN  IF name = <<>> THEN Thrown(k, "name required")
        ELSE IF schema = <<>> THEN Thrown(k, "empty schema")
        ELSE IF Len(schema) > MaxSchemaLen THEN Thrown(k, "schema too long")
        ELSE IF schema \in reservedWords THEN Thrown(k, "reserved")
        ELSE [k EXCEPT !.pc = "insert"]

CreateStart(c, name) ==
    /\ ct[c].pc = "idle"
    /\ ct' = [ct EXCEPT ![c] = CreateEntry(ct[c], name)]
    /\ UNCHANGED <<registry, nextId, storage, tenantModels, loadedAt, loads,
                   initCalls, dt, req, now, ret,
                   users, tokens>>

\* Rows that share a unique column (name, schema) with a new row.
Clashing(name, schema) == {t \in registry : t.name = name \/ t.schema = schema}

\* The validators of the Tenant model that run before the INSERT.
TenantValid(name, schema) ==
    /\ MatchesNameRegex(name) /\ Len(name) <= MaxHeaderLen
    /\ schema # <<>> /\ \A i \in 1..Len(schema) : IsSchemaChar(schema[i])

\* Step 1, await Tenant.create(..., { transaction }).  The INSERT waits while
\* an open transaction holds a clashing row, and fails on a committed one.
\* Then step 2 is issued.
CreateInsert(c) ==
    /\ ct[c].pc = "insert"
    /\ LET k == ct[c]
       IN  \/ /\ ~TenantValid(k.name, k.schema)
              /\ ct' = [ct EXCEPT ![c] = Caught(k, "validation")]
              /\ UNCHANGED <<registry, nextId>>
           \/ /\ TenantValid(k.name, k.schema)
              /\ \A t \in Clashing(k.name, k.schema) : t.tx = "none" /\ t.del = "none"
              /\ nextId <= MaxTenantId
              /\ nextId' = nextId + 1
              /\ IF Clashing(k.name, k.schema) # {}
                 THEN /\ ct' = [ct EXCEPT ![c] = Caught(k, "unique")]
                      /\ UNCHANGED registry
                 ELSE /\ registry' = registry \cup {Row(nextId, k.name, k.schema, c)}
                      /\ ct' = [ct EXCEPT ![c] =
                                  [k EXCEPT !.pc = "createSchema", !.tenantEntry = nextId]]
           \/ /\ TenantValid(k.name, k.schema)
              /\ ct' = [ct EXCEPT ![c] = Caught(k, "db")]
              /\ UNCHANGED <<registry, nextId>>
    /\ UNCHANGED <<storage, tenantModels, loadedAt, loads, initCalls, dt, req, now, ret,
                   users, tokens>>

\* Step 2, await sequelize.createSchema(schema, { ifNotExists: true }), then
\* step 3, getModels, and the issue of step 4.
CreateSchema(c) ==
    /\ ct[c].pc = "createSchema"
    /\ LET k == ct[c]
       IN  \/ /\ ct' = [ct EXCEPT ![c] = Caught(k, "db")]
              /\ UNCHANGED <<storage, tenantModels, loadedAt, loads, initCalls>>
           \/ /\ CanLoad(k.schema)
              /\ storage' = [storage EXCEPT ![k.schema] =
                                IF @ = "none" THEN "empty" ELSE @]
              /\ \E fs \in FsOutcomes :
                   LET g == GetModels(Cache, k.schema, k.tenantEntry, fs)
                       k2 == [k EXCEPT !.schemaCreated = TRUE,
                                       !.made = (storage[k.schema] = "none")]
                   IN  /\ SetCache(g.c)
                       /\ ct' = [ct EXCEPT ![c] =
                            IF g.threw \/ g.models.names = {}
                            THEN Caught(k2, "model initialization")
                            ELSE [k2 EXCEPT !.pc = "sync"]]
    /\ UNCHANGED <<registry, nextId, dt, req, now, ret,
                   users, tokens>>

\* Step 4, await sequelize.sync({ schema }).  It fails when the schema is gone;
\* it may also fail before or after it has created tables.
CreateSync(c) ==
    /\ ct[c].pc = "sync"
    /\ LET k == ct[c]
       IN  \/ /\ ct' = [ct EXCEPT ![c] = Caught(k, "db")]
              /\ UNCHANGED storage
           \/ /\ storage[k.schema] # "none"
              /\ storage' = [storage EXCEPT ![k.schema] = "tables"]
              /\ \/ ct' = [ct EXCEPT ![c] = Caught(k, "db")]
                 \/ ct' = [ct EXCEPT ![c] =
                             [k EXCEPT !.pc = "commit", !.tablesCreated = TRUE]]
    /\ UNCHANGED <<registry, nextId, tenantModels, loadedAt, loads, initCalls,
                   dt, req, now, ret,
                   users, tokens>>

\* The rows of the registry without those that transaction c inserted.
WithoutTx(c) == {t \in registry : t.tx # c}

\* await transaction.commit().  A failed commit leaves the transaction
\* finished, so the catch block skips the rollback.
CreateCommit(c) ==
    /\ ct[c].pc = "commit"
    /\ LET k == ct[c]
       IN  \/ /\ registry' = {IF t.tx = c THEN [t EXCEPT !.tx = "none"] ELSE t
                                : t \in registry}
              /\ ct' = [ct EXCEPT ![c] = [k EXCEPT !.pc = "done", !.finished = TRUE,
                                                   !.result = "ok"]]
           \/ /\ registry' = WithoutTx(c)
              /\ ct' = [ct EXCEPT ![c] =
                          [k EXCEPT !.pc = "cleanup", !.finished = TRUE,
                                    !.err = "commit"]]
    /\ UNCHANGED <<nextId, storage, tenantModels, loadedAt, loads, initCalls,
                   dt, req, now, ret,
                   users, tokens>>

\* clearSchema(schema) and the throw that end the catch block.
ClearAndThrow(c) ==
    /\ SetCache(ClearSchema(Cache, ct[c].schema).c)
    /\ ct' = [ct EXCEPT ![c] = [@ EXCEPT !.pc = "done", !.finished = TRUE,
                                         !.result = "failed"]]

\* await transaction.rollback() of the catch block.  It is outside the inner
\* try: when it throws, createTenant throws at once.  Otherwise the cleanup
\* follows: up to await dropSchema when a schema was created, else through
\* clearSchema to the throw.
CreateRollback(c) ==
    /\ ct[c].pc = "rollback"
    /\ registry' = WithoutTx(c)
    /\ \/ /\ ct' = [ct EXCEPT ![c] = Thrown(ct[c], "rollback")]
          /\ UNCHANGED <<tenantModels, loadedAt, loads, initCalls>>
       \/ /\ ct[c].tablesCreated \/ ct[c].schemaCreated
          /\ ct' = [ct EXCEPT ![c] = [@ EXCEPT !.pc = "cleanup", !.finished = TRUE]]
          /\ UNCHANGED <<tenantModels, loadedAt, loads, initCalls>>
       \/ /\ ~(ct[c].tablesCreated \/ ct[c].schemaCreated)
          /\ ClearAndThrow(c)
    /\ UNCHANGED <<nextId, storage, dt, req, now, ret,
                   users, tokens>>

\* await sequelize.dropSchema(schema) inside try/catch (a failure is logged
\* and swallowed), then clearSchema and the throw.
CreateCleanup(c) ==
    /\ ct[c].pc = "cleanup"
    /\ \/ storage' = [storage EXCEPT ![ct[c].schema] = "none"]
       \/ UNCHANGED storage
    /\ ClearAndThrow(c)
    /\ UNCHANGED <<registry, nextId, dt, req, now, ret,
                   users, tokens>>

----------------------------------------------------------------------------
(* TenantService.deleteTenant *)

IdleDelete == [pc |-> "idle", id |-> 0, tenant |-> NoTenant, err |-> "none",
               result |-> "none"]

\* await sequelize.transaction()
DeleteStart(id) ==
    /\ dt.pc = "idle"
    /\ dt' = [dt EXCEPT !.pc = "find", !.id = id]
    /\ UNCHANGED <<registry, nextId, storage, tenantModels, loadedAt, loads,
                   initCalls, ct, req, now, ret,
                   users, tokens>>

\* await Tenant.findByPk(tenantId, { transaction }), then the issue of dropSchema.
DeleteFind ==
    /\ dt.pc = "find"
    /\ LET tenant == findByPk(dt.id)
       IN  dt' = IF tenant = NoTenant
                 THEN [dt EXCEPT !.pc = "rollback", !.err = "Tenant not found"]
                 ELSE [dt EXCEPT !.pc = "drop", !.tenant = tenant]
    /\ UNCHANGED <<registry, nextId, storage, tenantModels, loadedAt, loads,
                   initCalls, ct, req, now, ret,
                   users, tokens>>

\* await sequelize.dropSchema(tenant.schema, { cascade: true })
DeleteDrop ==
    /\ dt.pc = "drop"
    /\ \/ /\ storage' = [storage EXCEPT ![dt.tenant.schema] = "none"]
          /\ dt' = [dt EXCEPT !.pc = "destroy"]
       \/ /\ dt' = [dt EXCEPT !.pc = "rollback", !.err = "db"]
          /\ UNCHANGED storage
    /\ UNCHANGED <<registry, nextId, tenantModels, loadedAt, loads, initCalls,
                   ct, req, now, ret,
                   users, tokens>>

\* await tenant.destroy({ transaction }), then clearSchema and the issue of
\* the commit.
DeleteDestroy ==
    /\ dt.pc = "destroy"
    /\ \/ /\ registry' = {IF t.id = dt.tenant.id THEN [t EXCEPT !.del = "d"] ELSE t
                            : t \in registry}
          /\ SetCache(ClearSchema(Cache, dt.tenant.schema).c)
          /\ dt' = [dt EXCEPT !.pc = "commit"]
       \/ /\ dt' = [dt EXCEPT !.pc = "rollback", !.err = "db"]
          /\ UNCHANGED <<registry, tenantModels, loadedAt, loads, initCalls>>
    /\ UNCHANGED <<nextId, storage, ct, req, now, ret,
                   users, tokens>>

\* await transaction.commit().  When it fails the catch block's rollback of
\* the finished transaction throws, and so does deleteTenant.
DeleteCommit ==
    /\ dt.pc = "commit"
    /\ \/ /\ registry' = {t \in registry : t.del # "d"}
          /\ dt' = [dt EXCEPT !.pc = "done", !.result = "ok"]
       \/ /\ registry' = {[t EXCEPT !.del = "none"] : t \in registry}
          /\ dt' = [dt EXCEPT !.pc = "done", !.err = "commit", !.result = "failed"]
    /\ UNCHANGED <<nextId, storage, tenantModels, loadedAt, loads, initCalls,
                   ct, req, now, ret,
                   users, tokens>>

\* await transaction.rollback() of the catch block, then the throw.
DeleteRollback ==
    /\ dt.pc = "rollback"
    /\ registry' = {[t EXCEPT !.del = "none"] : t \in registry}
    /\ dt' = [dt EXCEPT !.pc = "done", !.result = "failed"]
    /\ UNCHANGED <<nextId, storage, tenantModels, loadedAt, loads, initCalls,
                   ct, req, now, ret,
                   users, tokens>>

\* TenantService.reloadTenantModels(tenantName): await Tenant.findOne, then
\* reloadSchema.
ReloadTenantModels(name) ==
    /\ findOne(name) # NoTenant
    /\ LET tenant == findOne(name)
       IN  /\ loads < MaxLoads
           /\ \E fs \in FsOutcomes :
                SetCache(ReloadSchema(Cache, tenant.schema, tenant.id, fs).c)
    /\ UNCHANGED <<registry, nextId, storage, ct, dt, req, now, ret,
                   users, tokens>>

----------------------------------------------------------------------------
(* Values of request fields *)

Str(s) == [k |-> "str", s |-> s, n |-> 0]
Num(n) == [k |-> "num", s |-> <<>>, n |-> n]

\* ToBoolean of a field value: undefined, '' and 0 are falsy.
Truthy(v) ==
    CASE v.k = "undef" -> FALSE
      [] v.k = "str"   -> v.s # <<>>
      [] v.k = "num"   -> v.n # 0

RECURSIVE SkipSpaces(_)
SkipSpaces(s) ==
    IF s # <<>> /\ Head(s) = " " THEN SkipSpaces(Tail(s)) ELSE s

RECURSIVE DropTrailingSpaces(_)
DropTrailingSpaces(s) ==
    IF s # <<>> /\ s[Len(s)] = " "
    THEN DropTrailingSpaces(SubSeq(s, 1, Len(s) - 1))
    ELSE s

\* obj[key] = obj[key].trim() for a string, any other value is left alone
trim(v) ==
    IF v.k = "str" THEN Str(DropTrailingSpaces(SkipSpaces(v.s))) ELSE v

RECURSIVE DigitsPrefix(_)
DigitsPrefix(s) ==
    IF s # <<>> /\ Head(s) \in DigitChars
    THEN <<Head(s)>> \o DigitsPrefix(Tail(s))
    ELSE <<>>

DigitValue(c) == (CHOOSE i \in DOMAIN DigitSeq : DigitSeq[i] = c) - 1

RECURSIVE Decimal(_)
Decimal(d) ==
    IF d = <<>> THEN 0
    ELSE 10 * Decimal(SubSeq(d, 1, Len(d) - 1)) + DigitValue(d[Len(d)])

NaN == [nan |-> TRUE, n |-> 0]

\* parseInt(v): leading white space is skipped, a sign is read, then the
\* longest run of decimal digits; NaN when there is no digit.  A number is
\* converted to its decimal string first, which gives the number back.
parseInt(v) ==
    CASE v.k = "undef" -> NaN
      [] v.k = "num"   -> [nan |-> FALSE, n |-> v.n]
      [] v.k = "str"   ->
           LET s == SkipSpaces(v.s)
               signed == s # <<>> /\ Head(s) \in {"-", "+"}
               d == DigitsPrefix(IF signed THEN Tail(s) ELSE s)
           IN  IF d = <<>> THEN NaN
               ELSE [nan |-> FALSE,
                     n |-> IF signed /\ Head(s) = "-" THEN 0 - Decimal(d)
                           ELSE Decimal(d)]

\* param('userId').isInt({ min: 1 })
IsIntMin1(v) ==
    /\ v.k = "str"
    /\ LET s == v.s
           signed == s # <<>> /\ Head(s) \in {"-", "+"}
           d == IF signed THEN Tail(s) ELSE s
       IN  /\ d # <<>>
           /\ \A i \in 1..Len(d) : d[i] \in DigitChars
           /\ parseInt(v).n >= 1

----------------------------------------------------------------------------
(* POST /api/tenants: TenantRoutes and TenantController.createTenant *)

OtherThanCt == <<registry, nextId, storage, tenantModels, loadedAt, loads,
                 initCalls, dt, req, now, ret,
                   users, tokens>>

MinNameLen == 2

\* The rules without the one on the length.
TenantCreateRulesAnyLength(name) ==
    /\ name # <<>>
    /\ MatchesNameRegex(name)

\* ValidationRules.tenant.create on body('name'): trim, notEmpty,
\* isLength({ min: 2, max: 50 }), matches(/^[a-zA-Z0-9_-]+$/)
TenantCreateRules(name) ==
    /\ name # <<>>
    /\ Len(name) >= MinNameLen /\ Len(name) <= MaxHeaderLen
    /\ MatchesNameRegex(name)

\* router.use(sanitize.trim), router.use(sanitize.xss) and the rules on the
\* fields of the body, up to the await of customValidations.uniqueTenantName.
PostTenant(c, name) ==
    /\ ct[c].pc = "idle"
    /\ LET trimmed == DropTrailingSpaces(SkipSpaces(name))
       IN  ct' = [ct EXCEPT ![c] =
                    [@ EXCEPT !.pc = "unique",
                              !.post = [NoPost EXCEPT !.on = TRUE, !.name = trimmed,
                                                      !.valid = TenantCreateRules(trimmed)]]]
    /\ UNCHANGED OtherThanCt

\* await TenantModel.findOne({ where: { name: name.toLowerCase() } }) of
\* uniqueTenantName, then handleValidationErrors, then the controller up to
\* the first await of TenantService.createTenant.
PostUnique(c) ==
    /\ ct[c].pc = "unique"
    /\ LET k == ct[c]
           name == k.post.name
           taken == name # <<>> /\ findOne(toLowerCase(name)) # NoTenant
       IN  ct' = [ct EXCEPT ![c] =
                    IF ~k.post.valid \/ taken
                    THEN [k EXCEPT !.pc = "done", !.result = "rejected",
                                   !.post.status = 400, !.post.code = "VALIDATION_ERROR"]
                    ELSE IF name = <<>>
                    THEN [k EXCEPT !.pc = "done", !.result = "rejected",
                                   !.post.status = 400,
                                   !.post.code = "Tenant name is required"]
                    ELSE CreateEntry(k, name)]
    /\ UNCHANGED OtherThanCt

\* createTenant has returned or thrown: res.status(201).json(tenant), or the
\* catch block's res.status(400).json({ error: err.message }).
PostRespond(c) ==
    /\ ct[c].pc = "done" /\ ct[c].post.on /\ ct[c].post.status = 0
    /\ ct' = [ct EXCEPT ![c] =
                 IF ct[c].result = "ok"
                 THEN [@ EXCEPT !.post.status = 201, !.post.code = "tenant"]
                 ELSE [@ EXCEPT !.post.status = 400, !.post.code = ct[c].err]]
    /\ UNCHANGED OtherThanCt

----------------------------------------------------------------------------
(* AuthService: tokens *)

Roles == {"user", "manager", "admin"}

\* jwtExpiresIn '24h'; the unit of time is a day
JwtExpiresIn == 1

\* generateToken(payload) at time t
generateToken(payload, t) ==
    [sig |-> "ok", userId |-> payload.userId, email |-> payload.email,
     role |-> payload.role, tenantId |-> payload.tenantId,
     iat |-> t, exp |-> t + JwtExpiresIn, nbf |-> 0]

\* verifyToken(token) at time t: "ok" when jwt.verify returns the payload,
\* else the message of the error it throws.  jwt.verify checks the signature,
\* then nbf, then exp.
verifyToken(token, t) ==
    IF token.sig # "ok" THEN "Invalid token"
    ELSE IF token.nbf > t THEN "Token not active yet"
    ELSE IF t >= token.exp THEN "Token has expired"
    ELSE "ok"

\* The name of the jsonwebtoken error that verifyToken turns into the message.
ErrorName(message) ==
    CASE message = "Token has expired"    -> "TokenExpiredError"
      [] message = "Invalid token"        -> "JsonWebTokenError"
      [] message = "Token not active yet" -> "NotBeforeError"
      [] OTHER                            -> "none"

\* handleJWTError(err) of errorHandler: the status and code reported for a
\* jsonwebtoken error that reaches the error handling middleware.
handleJWTError(name) ==
    CASE name = "JsonWebTokenError" -> [status |-> 401, code |-> "INVALID_TOKEN"]
      [] name = "TokenExpiredError" -> [status |-> 401, code |-> "TOKEN_EXPIRED"]
      [] name = "NotBeforeError"    -> [status |-> 401, code |-> "TOKEN_NOT_ACTIVE"]
      [] OTHER                      -> [status |-> 0, code |-> "none"]

NoAuth == [bearer |-> FALSE, token |-> NoToken]

\* extractTokenFromHeader(authHeader): with or without the 'Bearer ' prefix
extractTokenFromHeader(authHeader) ==
    IF authHeader = NoAuth THEN NoToken
    ELSE IF authHeader.bearer THEN authHeader.token
    ELSE authHeader.token

----------------------------------------------------------------------------
(* The routers of /api/users and /api/employees *)

Rt(route, router, param, stack, handler, status) ==
    [route |-> route, router |-> router, param |-> param, stack |-> stack,
     handler |-> handler, status |-> status]

\* userRoutes: the middlewares of each route, in the order of registration
UserRoutes ==
    { Rt("GET /api/users", "users", "none",
         <<"manager", "validate", "handler">>, "getAllUsers", 200),
      Rt("POST /api/users", "users", "none",
         <<"admin", "validate", "handler">>, "createUser", 200),
      Rt("GET /api/users/:userId", "users", "userId",
         <<"validate", "ownerOrManager", "handler">>, "getUserById", 200),
      Rt("PUT /api/users/:userId", "users", "userId",
         <<"validate", "ownerOrAdmin", "handler">>, "updateUser", 200),
      Rt("DELETE /api/users/:userId", "users", "userId",
         <<"validate", "admin", "handler">>, "deleteUser", 200),
      Rt("PATCH /api/users/:userId/status", "users", "userId",
         <<"validate", "admin", "handler">>, "toggleUserStatus", 200),
      Rt("GET /api/users/role/:role", "users", "role",
         <<"validate", "manager", "handler">>, "getUsersByRole", 200) }

\* employeeRoutes
EmployeeRoutes ==
    { Rt("GET /api/employees", "employees", "none",
         <<"manager", "validate", "handler">>, "getAllEmployees", 200),
      Rt("POST /api/employees/search", "employees", "none",
         <<"manager", "validate", "handler">>, "searchEmployees", 200),
      Rt("GET /api/employees/stats", "employees", "none",
         <<"manager", "handler">>, "getEmployeeStats", 200),
      Rt("GET /api/employees/my-profile", "employees", "none",
         <<"user", "handler">>, "getMyProfile", 200),
      Rt("PUT /api/employees/my-profile", "employees", "none",
         <<"user", "validate", "handler">>, "updateMyProfile", 200),
      Rt("POST /api/employees", "employees", "none",
         <<"admin", "validate", "handler">>, "createEmployee", 200),
      Rt("GET /api/employees/department/:department", "employees", "department",
         <<"manager", "validate", "handler">>, "getEmployeesByDepartment", 200),
      Rt("GET /api/employees/manager/:managerId/reports", "employees", "managerId",
         <<"validate", "handler">>, "getDirectReports", 200),
      Rt("GET /api/employees/:employeeId", "employees", "employeeId",
         <<"validate", "ownerOrManager", "handler">>, "getEmployeeById", 200),
      Rt("PUT /api/employees/:employeeId", "employees", "employeeId",
         <<"validate", "ownerOrAdmin", "handler">>, "updateEmployee", 200),
      Rt("DELETE /api/employees/:employeeId", "employees", "employeeId",
         <<"admin", "validate", "handler">>, "deleteEmployee", 200),
      Rt("PATCH /api/employees/:employeeId/status", "employees", "employeeId",
         <<"admin", "validate", "handler">>, "updateEmployeeStatus", 200),
      Rt("GET /api/employees/:employeeId/reports", "employees", "employeeId",
         <<"validate", "inline", "handler">>, "getDirectReports", 200),
      Rt("POST /api/employees/bulk-import", "employees", "none",
         <<"admin", "handler">>, "notImplemented", 501),
      Rt("GET /api/employees/export/csv", "employees", "none",
         <<"manager", "handler">>, "notImplemented", 501),
      Rt("POST /api/employees/:employeeId/photo", "employees", "employeeId",
         <<"validate", "ownerOrAdmin", "handler">>, "notImplemented", 501) }

RouteTable == UserRoutes \cup EmployeeRoutes

Routes == {t.route : t \in RouteTable}

RouteOf(route) == CHOOSE t \in RouteTable : t.route = route

\* router.use(...) of the two routers
RouterUse(router) ==
    IF router = "users"
    THEN <<"tenant", "jwt", "trim", "xss">>
    ELSE <<"tenant", "jwt", "trim", "xss", "sanitizeSensitiveData", "formatDates">>

\* All middlewares a request on the route runs through, ending in the handler.
Chain(route) == RouterUse(RouteOf(route).router) \o RouteOf(route).stack

\* The middleware that the request is at.
Here(q) == IF q.pc = "policy" THEN q.policy.name ELSE Chain(q.route)[q.idx]

\* req.params[field]: the route has one path parameter, whose value the
\* request carries in params.
ParamsField(q, field) ==
    IF RouteOf(q.route).param = field THEN q.params ELSE Undefined

\* req.body[field] and req.query[field]: the request carries the values of
\* its userId fields.
BodyField(q, field) == IF field = "userId" THEN q.body ELSE Undefined
QueryField(q, field) == IF field = "userId" THEN q.query ELSE Undefined

\* next() of the middleware the request is at
NextStage(q) ==
    [q EXCEPT !.idx = @ + 1,
              !.nexts = Append(@, Here(q)),
              !.ran = Append(@, Here(q))]

----------------------------------------------------------------------------
(* jwtMiddleware *)

JwtSkipTenantCheck(q, t) ==
    LET token == extractTokenFromHeader(q.authorization)
        err == verifyToken(token, t)
    IN  IF token = NoToken
        THEN Respond(q, "jwt", 401, "TOKEN_MISSING")
        ELSE IF err # "ok"
        THEN Respond(q, "jwt", 401, "TOKEN_INVALID")
        ELSE NextStage([q EXCEPT !.user =
                 [userId |-> token.userId, role |-> token.role,
                  tenantId |-> token.tenantId]])

JwtReadsUser(q, t) ==
    LET token == extractTokenFromHeader(q.authorization)
        rows == IF q.tenant = NoCtx \/ token = NoToken THEN {}
                ELSE {u \in users[q.tenant.schema] : u.id = token.userId /\ u.isActive}
    IN  IF token = NoToken
        THEN Respond(q, "jwt", 401, "TOKEN_MISSING")
        ELSE IF verifyToken(token, t) # "ok" \/ rows = {}
        THEN Respond(q, "jwt", 401, "TOKEN_INVALID")
        ELSE NextStage([q EXCEPT !.user =
                 [userId |-> token.userId,
                  role |-> (CHOOSE u \in rows : TRUE).role,
                  tenantId |-> token.tenantId]])

jwtMiddleware(q, t) ==
    LET token == extractTokenFromHeader(q.authorization)
        err == verifyToken(token, t)
    IN  IF token = NoToken
        THEN Respond(q, "jwt", 401, "TOKEN_MISSING")
        ELSE IF err = "Token has expired"
        THEN Respond(q, "jwt", 401, "TOKEN_EXPIRED")
        ELSE IF err = "Token not active yet"
        THEN Respond(q, "jwt", 403, "TOKEN_NOT_ACTIVE")
        ELSE IF err # "ok"
        THEN Respond(q, "jwt", 401, "TOKEN_INVALID")
        ELSE IF \/ token.userId = 0 \/ ~token.email
                \/ token.role = "none" \/ token.tenantId = 0
        THEN Respond(q, "jwt", 401, "TOKEN_INVALID_PAYLOAD")
        ELSE IF q.tenant # NoCtx /\ token.tenantId # q.tenant.id
        THEN Respond(q, "jwt", 403, "TOKEN_TENANT_MISMATCH")
        ELSE NextStage([q EXCEPT !.user =
                 [userId |-> token.userId, role |-> token.role,
                  tenantId |-> token.tenantId]])

\* jwtMiddleware.optional: next() in every case, with req.user set from a
\* verified token that has the four fields, else null.
jwtOptional(q, t) ==
    LET token == extractTokenFromHeader(q.authorization)
        complete == /\ token.userId # 0 /\ token.email
                    /\ token.role # "none" /\ token.tenantId # 0
        user == IF token # NoToken /\ verifyToken(token, t) = "ok" /\ complete
                THEN [userId |-> token.userId, role |-> token.role,
                      tenantId |-> token.tenantId]
                ELSE NoUser
    IN  [q EXCEPT !.user = user,
                  !.idx = @ + 1,
                  !.nexts = Append(@, "jwt.optional"),
                  !.ran = Append(@, "jwt.optional")]

----------------------------------------------------------------------------
(* rbacMiddleware *)

\* ROLE_HIERARCHY[role] || 0
ROLE_HIERARCHY(role) ==
    CASE role = "user"    -> 1
      [] role = "manager" -> 2
      [] role = "admin"   -> 3
      [] OTHER            -> 0

HasPermissionExact(userRole, requiredRole) ==
    ROLE_HIERARCHY(userRole) = ROLE_HIERARCHY(requiredRole)

hasPermission(userRole, requiredRole) ==
    ROLE_HIERARCHY(userRole) >= ROLE_HIERARCHY(requiredRole)

RequireRoleUnauthenticated(q, allowedRoles) ==
    IF q.user = NoUser \/ q.user.role \notin allowedRoles
    THEN Respond(q, Here(q), 403, "INSUFFICIENT_ROLE")
    ELSE NextStage(q)

requireRole(q, allowedRoles) ==
    IF q.user = NoUser
    THEN Respond(q, Here(q), 401, "AUTH_REQUIRED")
    ELSE IF q.user.role \notin allowedRoles
    THEN Respond(q, Here(q), 403, "INSUFFICIENT_ROLE")
    ELSE NextStage(q)

RequireMinimumRoleAndGoOn(q, minimumRole) ==
    IF q.user = NoUser
    THEN Respond(q, Here(q), 401, "AUTH_REQUIRED")
    ELSE IF ~hasPermission(q.user.role, minimumRole)
    THEN NextStage([q EXCEPT !.sent = Append(@,
             [stage |-> Here(q), status |-> 403,
              code |-> "INSUFFICIENT_PERMISSIONS"])])
    ELSE NextStage(q)

requireMinimumRole(q, minimumRole) ==
    IF q.user = NoUser
    THEN Respond(q, Here(q), 401, "AUTH_REQUIRED")
    ELSE IF ~hasPermission(q.user.role, minimumRole)
    THEN Respond(q, Here(q), 403, "INSUFFICIENT_PERMISSIONS")
    ELSE NextStage(q)

RequireOwnershipParamsOnly(q, minimumRole, ownerField) ==
    IF q.user = NoUser
    THEN Respond(q, Here(q), 401, "AUTH_REQUIRED")
    ELSE IF hasPermission(q.user.role, minimumRole)
    THEN NextStage(q)
    ELSE LET resourceOwnerId == parseInt(ParamsField(q, ownerField))
         IN  IF resourceOwnerId.nan \/ resourceOwnerId.n = 0
             THEN Respond(q, Here(q), 403, "OWNERSHIP_UNKNOWN")
             ELSE IF q.user.userId = resourceOwnerId.n
             THEN NextStage(q)
             ELSE Respond(q, Here(q), 403, "INSUFFICIENT_PERMISSIONS_OR_OWNERSHIP")

requireOwnershipOrRole(q, minimumRole, ownerField) ==
    IF q.user = NoUser
    THEN Respond(q, Here(q), 401, "AUTH_REQUIRED")
    ELSE IF hasPermission(q.user.role, minimumRole)
    THEN NextStage(q)
    ELSE LET resourceOwnerId ==
                 IF Truthy(ParamsField(q, ownerField))
                 THEN parseInt(ParamsField(q, ownerField))
                 ELSE IF Truthy(BodyField(q, ownerField))
                 THEN parseInt(BodyField(q, ownerField))
                 ELSE IF Truthy(QueryField(q, ownerField))
                 THEN parseInt(QueryField(q, ownerField))
                 ELSE NaN
         IN  IF resourceOwnerId.nan \/ resourceOwnerId.n = 0
             THEN Respond(q, Here(q), 403, "OWNERSHIP_UNKNOWN")
             ELSE IF q.user.userId = resourceOwnerId.n
             THEN NextStage(q)
             ELSE Respond(q, Here(q), 403, "INSUFFICIENT_PERMISSIONS_OR_OWNERSHIP")

\* requireActiveUser(): found is what User.findByPk(req.user.userId) gives:
\* it throws, finds no row, or finds an inactive or an active user.
requireActiveUser(q, found) ==
    IF q.user = NoUser
    THEN Respond(q, Here(q), 401, "AUTH_REQUIRED")
    ELSE IF found = "throw"
    THEN Respond(q, Here(q), 500, "USER_STATUS_ERROR")
    ELSE IF found = "none"
    THEN Respond(q, Here(q), 404, "USER_NOT_FOUND")
    ELSE IF found = "inactive"
    THEN Respond(q, Here(q), 403, "ACCOUNT_INACTIVE")
    ELSE NextStage(q)

\* the minimum role of rbac.ownerOrAdmin and rbac.ownerOrManager
OwnerPolicies == {"ownerOrAdmin", "ownerOrManager"}
OwnerMinimumRole(policy) == IF policy = "ownerOrAdmin" THEN "admin" ELSE "manager"

----------------------------------------------------------------------------
(* AuthController.login and the user administration of UserController *)

UserRow(id, role, isActive) == [id |-> id, role |-> role, isActive |-> isActive]

\* At most this many tokens are handed out in a run.
MaxTokens == 1

\* POST /api/auth/login on tenant t with the email and password of user id:
\* the user is found and active, and the token carries the stored role and
\* the id of the tenant of the request.
login(t, id) ==
    /\ Cardinality(tokens) < MaxTokens
    /\ t \in registry /\ t.tx = "none" /\ t.isActive
    /\ \E u \in users[t.schema] :
          /\ u.id = id /\ u.isActive
          /\ tokens' = tokens \cup
                {generateToken([userId |-> u.id, email |-> TRUE, role |-> u.role,
                                tenantId |-> t.id], now)}
    /\ UNCHANGED <<registry, nextId, storage, tenantModels, loadedAt, loads,
                   initCalls, ct, dt, req, now, ret, users>>

OtherThanUsers == <<registry, nextId, storage, tenantModels, loadedAt, loads,
                    initCalls, ct, dt, req, now, ret, tokens>>

\* PUT /api/users/:userId by an admin with a role in the body:
\* user.update({role}).
updateUser(schema, id, role) ==
    /\ \E u \in users[schema] :
          /\ u.id = id
          /\ role # u.role
          /\ users' = [users EXCEPT ![schema] =
                         (@ \ {u}) \cup {UserRow(id, role, u.isActive)}]
    /\ UNCHANGED OtherThanUsers

\* PATCH /api/users/:userId/status: user.update({isActive}).
toggleUserStatus(schema, id, isActive) ==
    /\ \E u \in users[schema] :
          /\ u.id = id
          /\ u.isActive # isActive
          /\ users' = [users EXCEPT ![schema] =
                         (@ \ {u}) \cup {UserRow(id, u.role, isActive)}]
    /\ UNCHANGED OtherThanUsers

\* DELETE /api/users/:userId: user.destroy().
deleteUser(schema, id) ==
    /\ \E u \in users[schema] :
          /\ u.id = id
          /\ users' = [users EXCEPT ![schema] = @ \ {u}]
    /\ UNCHANGED OtherThanUsers

----------------------------------------------------------------------------
(* The steps of a request after the tenant middleware *)

OtherThanReq == <<registry, nextId, storage, tenantModels, loadedAt, loads,
                  initCalls, ct, dt, now, ret,
                   users, tokens>>

\* The request is at middleware (or handler) s of its route.
At(r, s) == req[r].pc = "chain" /\ Here(req[r]) = s

\* A request arrives on a route of one of the two routers.
Arrive(r, route, header, authorization, params, body, query) ==
    /\ req[r].pc = "idle"
    /\ req' = [req EXCEPT ![r] =
                 [IdleReq EXCEPT !.pc = "tenant", !.idx = 1, !.route = route,
                                 !.header = header,
                                 !.authorization = authorization,
                                 !.params = params, !.body = body,
                                 !.query = query]]
    /\ UNCHANGED OtherThanReq

JwtStage(r) ==
    /\ At(r, "jwt")
    /\ req' = [req EXCEPT ![r] = jwtMiddleware(req[r], now)]
    /\ UNCHANGED OtherThanReq

\* sanitize.trim
TrimStage(r) ==
    /\ At(r, "trim")
    /\ req' = [req EXCEPT ![r] =
                 NextStage([req[r] EXCEPT !.body = trim(@), !.query = trim(@)])]
    /\ UNCHANGED OtherThanReq

\* sanitize.xss: a string without markup is returned as it is, and the values
\* of the requests hold none.
XssStage(r) ==
    /\ At(r, "xss")
    /\ req' = [req EXCEPT ![r] = NextStage(req[r])]
    /\ UNCHANGED OtherThanReq

\* employeeSanitization.sanitizeSensitiveData and formatDates
EmployeeSanitizeStage(r) ==
    /\ At(r, "sanitizeSensitiveData") \/ At(r, "formatDates")
    /\ req' = [req EXCEPT ![r] = NextStage(req[r])]
    /\ UNCHANGED OtherThanReq

\* validate(rules): the rules, then handleValidationErrors.  The rule on the
\* userId path parameter is modelled; the rules on the other fields pass or
\* fail (ok).
ValidateStage(r) ==
    /\ At(r, "validate")
    /\ \E ok \in BOOLEAN :
         LET q == req[r]
             valid == /\ ok
                      /\ RouteOf(q.route).param = "userId" => IsIntMin1(q.params)
         IN  req' = [req EXCEPT ![r] =
                       IF valid THEN NextStage(q)
                       ELSE Respond(q, "validate", 400, "VALIDATION_ERROR")]
    /\ UNCHANGED OtherThanReq

\* rbac.admin
RoleStage(r) ==
    /\ At(r, "admin")
    /\ req' = [req EXCEPT ![r] = requireRole(req[r], {"admin"})]
    /\ UNCHANGED OtherThanReq

\* rbac.manager and rbac.user
MinRoleStage(r) ==
    /\ At(r, "manager") \/ At(r, "user")
    /\ req' = [req EXCEPT ![r] = requireMinimumRole(req[r], Here(req[r]))]
    /\ UNCHANGED OtherThanReq

\* rbac.ownerOrAdmin and rbac.ownerOrManager
OwnerStage(r) ==
    /\ \E p \in OwnerPolicies : At(r, p)
    /\ req' = [req EXCEPT ![r] =
                 requireOwnershipOrRole(req[r], OwnerMinimumRole(Here(req[r])),
                                        "userId")]
    /\ UNCHANGED OtherThanReq

\* the check that GET /:employeeId/reports makes in the route
InlineStage(r) ==
    /\ At(r, "inline")
    /\ LET q == req[r]
           id == parseInt(ParamsField(q, "employeeId"))
           canView == \/ q.user.role \in {"admin", "manager"}
                      \/ ~id.nan /\ id.n = q.user.userId
       IN  req' = [req EXCEPT ![r] =
                     IF ~canView
                     THEN Respond(q, "inline", 403, "INSUFFICIENT_PERMISSIONS")
                     ELSE NextStage(q)]
    /\ UNCHANGED OtherThanReq

\* The handler of the route is invoked.  getDirectReports makes its own check
\* on req.params.managerId; the other handlers answer.
Handler(r) ==
    /\ At(r, "handler")
    /\ LET q == req[r]
           id == parseInt(ParamsField(q, "managerId"))
           canViewReports == \/ q.user.role \in {"admin", "manager"}
                             \/ ~id.nan /\ id.n = q.user.userId
       IN  req' = [req EXCEPT ![r] =
                     IF RouteOf(q.route).handler = "getDirectReports" /\ ~canViewReports
                     THEN Respond(q, "handler", 403, "INSUFFICIENT_PERMISSIONS")
                     ELSE Respond(q, "handler", RouteOf(q.route).status, "handled")]
    /\ UNCHANGED OtherThanReq

\* A policy middleware is called on a request object: req[r].policy is the
\* middleware that its factory returned.
Called(r, name) ==
    req[r].pc = "policy" /\ req[r].idx = 1 /\ req[r].policy.name = name

CallRequireRole(r) ==
    /\ Called(r, "requireRole")
    /\ req' = [req EXCEPT ![r] = requireRole(req[r], req[r].policy.roles)]
    /\ UNCHANGED OtherThanReq

CallRequireMinimumRole(r) ==
    /\ Called(r, "requireMinimumRole")
    /\ req' = [req EXCEPT ![r] =
                 requireMinimumRole(req[r], req[r].policy.minimumRole)]
    /\ UNCHANGED OtherThanReq

CallRequireOwnershipOrRole(r) ==
    /\ Called(r, "requireOwnershipOrRole")
    /\ req' = [req EXCEPT ![r] =
                 requireOwnershipOrRole(req[r], req[r].policy.minimumRole, "userId")]
    /\ UNCHANGED OtherThanReq

CallRequireActiveUser(r) ==
    /\ Called(r, "requireActiveUser")
    /\ \E found \in {"throw", "none", "inactive", "active"} :
         req' = [req EXCEPT ![r] = requireActiveUser(req[r], found)]
    /\ UNCHANGED OtherThanReq

\* A request arrives for a handler behind tenantMiddleware and
\* jwtMiddleware.optional.
ArriveOptional(r, header, authorization) ==
    /\ req[r].pc = "idle"
    /\ req' = [req EXCEPT ![r] =
                 [IdleReq EXCEPT !.pc = "tenant", !.header = header,
                                 !.authorization = authorization]]
    /\ UNCHANGED OtherThanReq

\* jwtMiddleware.optional runs after tenantMiddleware has called next().
OptionalStage(r) ==
    /\ req[r].pc = "chain" /\ req[r].route = "none" /\ req[r].idx = 2
    /\ req' = [req EXCEPT ![r] = jwtOptional(req[r], now)]
    /\ UNCHANGED OtherThanReq

\* The handler answers.
OptionalHandler(r) ==
    /\ req[r].pc = "chain" /\ req[r].route = "none" /\ req[r].idx = 3
    /\ req' = [req EXCEPT ![r] = Respond(req[r], "handler", 200, "handled")]
    /\ UNCHANGED OtherThanReq

\* Time passes.
Tick ==
    /\ now < MaxNow
    /\ now' = now + 1
    /\ UNCHANGED <<registry, nextId, storage, tenantModels, loadedAt, loads,
                   initCalls, ct, dt, req, ret, users, tokens>>

----------------------------------------------------------------------------
(* Tenant lifecycle, cache and resolution *)

Headers == {<<>>, NameAb, NameADashB, NameB, NameBang}
CreateNames == {NameAb, NameADashB, NamePublic, NameOnlyBang, NameBang}

\* A request arrives on a router whose first middleware is tenantMiddleware.
Receive(r, header) ==
    /\ req[r].pc = "idle"
    /\ req' = [req EXCEPT ![r] = [IdleReq EXCEPT !.pc = "tenant", !.header = header]]
    /\ UNCHANGED <<registry, nextId, storage, tenantModels, loadedAt, loads,
                   initCalls, ct, dt, now, ret,
                   users, tokens>>

AllSchemas == Schemas \cup {DeriveSchema(n) : n \in CreateNames}

\* No schema has users.
NoUsers == [s \in AllSchemas |-> {}]

\* The state after a start of the process (an empty cache) with the given
\* committed rows, each with its schema and tables in storage.
InitWith(rows) ==
    /\ registry = rows
    /\ nextId = Cardinality(rows) + 1
    /\ storage = [s \in AllSchemas |->
                    IF \E t \in rows : t.schema = s THEN "tables" ELSE "none"]
    /\ tenantModels = << >>
    /\ loadedAt = << >>
    /\ loads = 0
    /\ initCalls = [s \in AllSchemas |-> [all |-> 0, ok |-> 0]]
    /\ ct = [c \in Calls |-> IdleCall]
    /\ dt = IdleDelete
    /\ req = [r \in Reqs |-> IdleReq]
    /\ now = 0
    /\ ret = NoReturn
    /\ users = NoUsers
    /\ tokens = {}

TenantB == Row(1, NameB, DeriveSchema(NameB), "none")
TenantAb == Row(2, NameAb, DeriveSchema(NameAb), "none")

\* One tenant, "b", exists.
Init == InitWith({TenantB})

\* Two tenants, "b" and "ab", exist.
InitTwo == InitWith({TenantB, TenantAb})

\* The response is delivered and the request object is dropped.
Finish(r) ==
    /\ req[r].pc = "done"
    /\ req' = [req EXCEPT ![r] = IdleReq]
    /\ UNCHANGED <<registry, nextId, storage, tenantModels, loadedAt, loads,
                   initCalls, ct, dt, now, ret,
                   users, tokens>>

Resolution(rs, hs) ==
    \/ \E r \in rs, h \in hs : Receive(r, h)
    \/ \E r \in rs : TenantValidate(r) \/ TenantFind(r) \/ TenantProbe(r)

Creation(cs, ns) ==
    \/ \E c \in cs, n \in ns : CreateStart(c, n)
    \/ \E c \in cs : \/ CreateInsert(c) \/ CreateSchema(c) \/ CreateSync(c)
                     \/ CreateCommit(c) \/ CreateRollback(c) \/ CreateCleanup(c)

Deletion ==
    \/ \E id \in 1..MaxTenantId : DeleteStart(id)
    \/ DeleteFind \/ DeleteDrop \/ DeleteDestroy \/ DeleteCommit \/ DeleteRollback

\* Resolution of one request while a tenant is created, one is deleted and
\* the models of one are reloaded.
Next ==
    \/ Resolution({"r1"}, Headers)
    \/ Creation({"c1"}, {NameAb, NameADashB})
    \/ Deletion
    \/ \E n \in Names : ReloadTenantModels(n)

Spec == Init /\ [][Next]_vars

\* deleteTenant beside the requests of two clients.
NextDelete ==
    \/ Resolution({"r1", "r2"}, {NameB})
    \/ \E r \in {"r1", "r2"} : Finish(r)
    \/ Deletion

SpecDelete == Init /\ [][NextDelete]_vars

\* Two createTenant calls side by side.
NextCreate == Creation(Calls, CreateNames)

SpecCreate == Init /\ [][NextCreate]_vars

\* Requests that resolve tenants over and over while models are reloaded.
NextCache ==
    \/ Resolution({"r1", "r2"}, {NameAb, NameB})
    \/ \E r \in {"r1", "r2"} : Finish(r)
    \/ \E n \in Names : ReloadTenantModels(n)

SpecCache == InitTwo /\ [][NextCache]_vars

\* The methods of the cache service called in any order, next to requests
\* that resolve a tenant, while time passes.
ServiceKeys == {DeriveSchema(NameB), DeriveSchema(NameAb)}
Ages == {1}

NextService ==
    \/ \E k \in ServiceKeys : \E fs \in {"ok", "throw"} : GetModelsCall(k, 1, fs)
    \/ \E k \in ServiceKeys : GetCacheEntryCall(k)
    \/ \E k \in ServiceKeys : HasModelsCall(k)
    \/ \E k \in ServiceKeys : ClearSchemaCall(k)
    \/ ClearAllCall
    \/ GetStatsCall
    \/ \E k \in ServiceKeys : \E fs \in {"ok", "throw"} : ReloadSchemaCall(k, 1, fs)
    \/ \E age \in Ages : GetStaleEntriesCall(age)
    \/ Resolution({"r1"}, {NameB})
    \/ Finish("r1")
    \/ Tick

SpecService == InitTwo /\ [][NextService]_vars

\* POST /api/tenants requests next to requests that resolve the tenant "ab",
\* which a request may create.
LongName == [i \in 1..(MaxHeaderLen + 1) |-> "a"]
NameSpaced == NameADashB \o <<" ">>
PostNames == {<<>>, NameB, NameAb, NameADashB, NameSpaced, NamePublic, NameBang,
              LongName}

InitAb == InitWith({TenantAb})

NextTenantRoute ==
    \/ \E c \in Calls : /\ ct[c].pc = "idle"
                         /\ \E n \in PostNames : PostTenant(c, n)
    \/ \E c \in Calls : PostUnique(c) \/ PostRespond(c)
    \/ \E c \in Calls : \/ CreateInsert(c) \/ CreateSchema(c) \/ CreateSync(c)
                         \/ CreateCommit(c) \/ CreateRollback(c) \/ CreateCleanup(c)
    \/ Resolution({"r1"}, {NameAb})

SpecTenantRoute == Init /\ [][NextTenantRoute]_vars

\* Requests that arrive side by side on a cache that holds nothing yet.
NextFirstAccess == Resolution(Reqs, {NameAb, NameB})

SpecFirstAccess == InitTwo /\ [][NextFirstAccess]_vars

\* Tenant "b" is active and tenant "ab" was deactivated in the registry.
InitInactive == InitWith({TenantB, [TenantAb EXCEPT !.isActive = FALSE]})

\* Requests with every kind of header, one after another and side by side.
NextResolve ==
    \/ Resolution({"r1", "r2"}, Headers)
    \/ \E r \in {"r1", "r2"} : Finish(r)

SpecResolve == InitInactive /\ [][NextResolve]_vars

\* The payloads that register and login sign: a user of one of the two
\* tenants, with an email and a role.
Payloads == [userId : {7}, email : {TRUE}, role : Roles, tenantId : {1, 2}]

\* The tokens that generateToken has issued up to time t.
Minted(t) == {generateToken(p, i) : p \in Payloads, i \in 0..t}

AdminOfAb == [userId |-> 7, email |-> TRUE, role |-> "admin", tenantId |-> 2]

\* Tokens that generateToken did not issue: one with another signature, and
\* three signed with the secret: one without an email, one without a tenantId,
\* one that is not active before MaxNow.
Foreign ==
    { [generateToken(AdminOfAb, 0) EXCEPT !.sig = "bad"],
      [generateToken(AdminOfAb, 0) EXCEPT !.email = FALSE],
      [generateToken(AdminOfAb, 0) EXCEPT !.tenantId = 0],
      [generateToken(AdminOfAb, 0) EXCEPT !.nbf = MaxNow, !.exp = MaxNow + 1] }

\* The Authorization headers a client can send at time t.
AuthHeaders(t) ==
    {NoAuth}
      \cup {[bearer |-> TRUE, token |-> k] : k \in Minted(t) \cup Foreign}
      \cup {[bearer |-> FALSE, token |-> generateToken(AdminOfAb, t)]}

PipeHeaders == {<<>>, NameAb, NameB, NameADashB}

\* The value of the path parameter of a route.
PathValues(route) ==
    IF RouteOf(route).param = "none" THEN {Undefined}
    ELSE {Str(<<"7">>), Str(<<"8">>)}

\* The middlewares and the handler of a request, one step each.
Stages(r) ==
    \/ TenantValidate(r) \/ TenantFind(r) \/ TenantProbe(r)
    \/ JwtStage(r) \/ TrimStage(r) \/ XssStage(r) \/ EmployeeSanitizeStage(r)
    \/ ValidateStage(r) \/ RoleStage(r) \/ MinRoleStage(r) \/ OwnerStage(r)
    \/ InlineStage(r) \/ Handler(r)

\* One request after the other through tenantMiddleware and
\* jwtMiddleware.optional, with any of the tokens.
NextOptional ==
    \/ /\ req["r1"].pc = "idle"
       /\ \E h \in {NameAb, NameB}, a \in AuthHeaders(now) : ArriveOptional("r1", h, a)
    \/ TenantValidate("r1") \/ TenantFind("r1") \/ TenantProbe("r1")
    \/ OptionalStage("r1") \/ OptionalHandler("r1")
    \/ Finish("r1")
    \/ Tick

SpecOptional == InitTwo /\ [][NextOptional]_vars

\* User 7 of tenant "b" exists and is active, with any role.
InitSession ==
    /\ registry = {TenantB, TenantAb}
    /\ nextId = 3
    /\ storage = [s \in AllSchemas |->
                    IF s \in {TenantB.schema, TenantAb.schema} THEN "tables" ELSE "none"]
    /\ tenantModels = << >>
    /\ loadedAt = << >>
    /\ loads = 0
    /\ initCalls = [s \in AllSchemas |-> [all |-> 0, ok |-> 0]]
    /\ ct = [c \in Calls |-> IdleCall]
    /\ dt = IdleDelete
    /\ req = [r \in Reqs |-> IdleReq]
    /\ now = 0
    /\ ret = NoReturn
    /\ \E role \in Roles :
          users = [NoUsers EXCEPT ![TenantB.schema] = {UserRow(7, role, TRUE)}]
    /\ tokens = {}

\* Routes behind rbac.manager, rbac.admin and rbac.user.
SessionRoutes ==
    {"GET /api/users", "POST /api/users", "GET /api/employees/my-profile"}

\* User 7 logs in, admins change, deactivate and delete the user, and
\* requests carry the tokens that login handed out.
NextSession ==
    \/ login(TenantB, 7)
    \/ \E role \in Roles : updateUser(TenantB.schema, 7, role)
    \/ \E isActive \in BOOLEAN : toggleUserStatus(TenantB.schema, 7, isActive)
    \/ deleteUser(TenantB.schema, 7)
    \/ /\ req["r1"].pc = "idle"
       /\ \E route \in SessionRoutes, h \in {NameB, NameAb}, tok \in tokens :
            Arrive("r1", route, h, [bearer |-> TRUE, token |-> tok],
                   Undefined, Undefined, Undefined)
    \/ TenantValidate("r1") \/ TenantFind("r1") \/ TenantProbe("r1")
    \/ JwtStage("r1") \/ TrimStage("r1") \/ XssStage("r1")
    \/ EmployeeSanitizeStage("r1") \/ ValidateStage("r1")
    \/ RoleStage("r1") \/ MinRoleStage("r1") \/ Handler("r1")
    \/ Tick

SpecSession == InitSession /\ [][NextSession]_vars

\* One request on any route of the two routers, with any of the tokens.
NextPipe ==
    \/ /\ req["r1"].pc = "idle"
       /\ \E route \in Routes, h \in PipeHeaders, a \in AuthHeaders(now) :
            \E p \in PathValues(route), qy \in {Undefined, Str(<<"7">>)} :
               Arrive("r1", route, h, a, p, Undefined, qy)
    \/ Stages("r1")
    \/ Tick

SpecPipe == InitTwo /\ [][NextPipe]_vars

\* The routes with an ownership-or-role policy.
OwnerRoutes ==
    {t.route : t \in {u \in RouteTable :
                        \E i \in DOMAIN u.stack : u.stack[i] \in OwnerPolicies}}

\* Values of userId in a JSON body.
OwnerValues ==
    { Undefined, Num(0), Num(7), Num(8),
      Str(<<>>), Str(<<" ">>), Str(<<"0">>), Str(<<"7">>), Str(<<"8">>),
      Str(<<"7", "a">>), Str(<<"a">>), Str(<<" ", "7">>), Str(<<"-", "7">>) }

\* A query string holds strings only.
QueryValues == {v \in OwnerValues : v.k # "num"}

\* Path segments for :userId and :employeeId.
OwnerPathValues(route) ==
    IF RouteOf(route).param = "userId"
    THEN {Str(<<"7">>), Str(<<"8">>), Str(<<"0">>), Str(<<"7", "a">>)}
    ELSE {Str(<<"7">>), Str(<<"8">>)}

\* The tokens of the users 7 and 8 of tenant "b".
OwnerAuthHeaders ==
    {[bearer |-> TRUE, token |-> generateToken(p, 0)] :
        p \in [userId : {7, 8}, email : {TRUE}, role : Roles, tenantId : {1}]}

\* One request of a user of tenant "b" on a route with an ownership-or-role
\* policy.
NextRbac ==
    \/ /\ req["r1"].pc = "idle"
       /\ \E route \in OwnerRoutes, a \in OwnerAuthHeaders :
            \E p \in OwnerPathValues(route), b \in OwnerValues, qy \in QueryValues :
               Arrive("r1", route, NameB, a, p, b, qy)
    \/ TenantValidate("r1") \/ TenantFind("r1") \/ TenantProbe("r1")
    \/ JwtStage("r1") \/ TrimStage("r1") \/ XssStage("r1")
    \/ EmployeeSanitizeStage("r1") \/ ValidateStage("r1")
    \/ OwnerStage("r1") \/ Handler("r1")

SpecRbac == InitTwo /\ [][NextRbac]_vars

\* The middlewares that the factories of rbacMiddleware return: those of the
\* rbac object, and requireMinimumRole of every role of the hierarchy.
MountedPolicies ==
    {[NoPolicy EXCEPT !.name = "requireRole", !.roles = rs] :
        rs \in {{"admin"}, {"admin", "manager"}}}
      \cup {[NoPolicy EXCEPT !.name = "requireMinimumRole", !.minimumRole = m] :
               m \in Roles}
      \cup {[NoPolicy EXCEPT !.name = "requireOwnershipOrRole", !.minimumRole = m] :
               m \in {"admin", "manager"}}
      \cup {[NoPolicy EXCEPT !.name = "requireActiveUser"]}

\* req.user: none, or an actor with one of the three roles or another role.
PolicyUsers ==
    {NoUser} \cup [userId : {7, 8}, role : Roles \cup {"guest"}, tenantId : {1}]

\* The request objects handed to a policy middleware.
PolicyReqs ==
    {[IdleReq EXCEPT !.pc = "policy", !.idx = 1, !.policy = p, !.route = route,
                     !.user = u, !.params = Str(<<"7">>), !.body = b, !.query = qy] :
        p \in MountedPolicies, u \in PolicyUsers,
        route \in {"GET /api/users/:userId", "GET /api/employees/:employeeId"},
        b \in {Undefined, Num(8), Str(<<>>)}, qy \in {Undefined, Str(<<"7">>)}}

InitPolicy ==
    /\ registry = {TenantB, TenantAb}
    /\ nextId = 3
    /\ storage = [s \in AllSchemas |->
                    IF s \in {TenantB.schema, TenantAb.schema} THEN "tables" ELSE "none"]
    /\ tenantModels = << >>
    /\ loadedAt = << >>
    /\ loads = 0
    /\ initCalls = [s \in AllSchemas |-> [all |-> 0, ok |-> 0]]
    /\ ct = [c \in Calls |-> IdleCall]
    /\ dt = IdleDelete
    /\ \E q \in PolicyReqs : req = [r \in Reqs |-> IF r = "r1" THEN q ELSE IdleReq]
    /\ now = 0
    /\ ret = NoReturn
    /\ users = NoUsers
    /\ tokens = {}

\* Each policy middleware called on each request object.
NextPolicy ==
    \/ CallRequireRole("r1") \/ CallRequireMinimumRole("r1")
    \/ CallRequireOwnershipOrRole("r1") \/ CallRequireActiveUser("r1")

SpecPolicy == InitPolicy /\ [][NextPolicy]_vars

----------------------------------------------------------------------------
(* Claims on resolution and the cache *)

\* The request holds a ModelSet that getModels returned to it.
Got(r) == req[r].models # NoModels

\* The tenant middleware has passed the request on.
Bound(r) == req[r].tenant # NoCtx

\* C1 (as amended): whenever the tenant middleware passes a request on, the
\* bound models are the ModelSet that getModels returned to this request, the
\* bound tenant is the registry row that the middleware read under the
\* x-tenant-id name, and that ModelSet was constructed for the schema of that
\* row; no request is bound to a ModelSet constructed for another schema.
C1_BoundModelsOfOwnSchema ==
    \A r \in Reqs :
        /\ Got(r) => /\ req[r].row.name = req[r].header
                     /\ req[r].models.schema = req[r].row.schema
                     /\ req[r].models.names # {}
        /\ Bound(r) => /\ req[r].tenant.models = req[r].models
                       /\ req[r].tenant.schema = req[r].row.schema
                       /\ req[r].tenant.id = req[r].row.id
                       /\ req[r].tenant.name = req[r].header

\* A request is bound to a tenant that createTenant created, after a
\* deleteTenant call has run to its end.
C1_Witness ==
    /\ Bound("r1") /\ req["r1"].tenant.id >= 2
    /\ dt.pc = "done"

\* C1 (as stated): at the moment the middleware passes a request on, the bound
\* models are the ModelSet that the cache holds under the schema of the
\* registry tenant named by the header.
C1_BoundModelsAreCached ==
    [][\A r \in Reqs :
         (req[r].pc = "probe" /\ req'[r].pc = "chain") =>
            LET k == findOne(req[r].header)'.schema
            IN  /\ k \in DOMAIN tenantModels'
                /\ tenantModels'[k].models = req'[r].tenant.models]_vars

\* C5: requests that make the first accesses to one uncached key side by side
\* all receive the same ModelSet object, and it is the one entry that the
\* cache holds for the key.
C5_FirstAccessesConverge ==
    \A r \in Reqs : \A s \in Reqs :
        (Got(r) /\ Got(s) /\ req[r].row.schema = req[s].row.schema) =>
            /\ req[r].models = req[s].models
            /\ req[r].row.schema \in DOMAIN tenantModels
            /\ tenantModels[req[r].row.schema].models = req[r].models
            /\ req[r].row.schema \in DOMAIN loadedAt

\* All three requests have made their getModels call on the same key.
C5_Witness ==
    \A r \in Reqs : Got(r) /\ req[r].row.schema = DeriveSchema(NameB)

\* A step in which request r runs getModels (inside TenantFind) on key k.
GetModelsStep(r, k) ==
    /\ req[r].pc = "find"
    /\ req'[r].pc # "find"
    /\ req'[r].row # NoTenant
    /\ req'[r].row.schema = k

\* C6 (as amended): getModels(k) on a key that has an entry returns that
\* entry's ModelSet without calling initModels and without changing the cache;
\* on a key with no entry it calls initModels once and, when the construction
\* succeeds, stores the result under k and returns it; hence between two
\* removals of k at most one initModels call for k succeeds, and only failed
\* constructions are repeated.
C6_GetOrLoad ==
    /\ [](\A k \in AllSchemas : initCalls[k].ok <= 1)
    /\ [][\A r \in Reqs : \A k \in AllSchemas :
            GetModelsStep(r, k) =>
              IF k \in DOMAIN tenantModels
              THEN /\ loads' = loads
                   /\ tenantModels' = tenantModels /\ loadedAt' = loadedAt
                   /\ req'[r].models = tenantModels[k].models
              ELSE /\ loads' = loads + 1
                   /\ initCalls'[k].all = initCalls[k].all + 1
                   /\ Got(r)' => /\ k \in DOMAIN tenantModels'
                                 /\ tenantModels'[k].models = req'[r].models
                                 /\ req'[r].models.obj = loads']_vars

\* A key was loaded, served from the cache to a second request, and not
\* constructed again.
C6_Witness ==
    /\ Got("r1") /\ Got("r2")
    /\ req["r1"].row.schema = req["r2"].row.schema
    /\ initCalls[req["r1"].row.schema].all = 1

\* C6 (as stated): between two removals of k initModels runs at most once
\* for k.
C6_InitModelsAtMostOnce ==
    \A k \in AllSchemas : initCalls[k].all <= 1

\* C7: when the construction fails in getModels(k), getModels throws, neither
\* Map gains an entry for k, every other entry is unchanged, and the next
\* getModels(k) constructs again.
C7_FailedLoadLeavesNoEntry ==
    [][\A r \in Reqs : \A k \in AllSchemas :
         (GetModelsStep(r, k) /\ k \notin DOMAIN tenantModels) =>
            /\ loads' = loads + 1
            /\ ~Got(r)' =>
                 /\ req'[r].pc = "done"
                 /\ tenantModels' = tenantModels /\ loadedAt' = loadedAt
                 /\ k \notin DOMAIN tenantModels' /\ k \notin DOMAIN loadedAt']_vars

\* A construction failed for a key, and a later call constructed it.
C7_Witness ==
    \E k \in AllSchemas :
        /\ initCalls[k].all >= 2
        /\ k \in DOMAIN tenantModels
        /\ \E r \in Reqs : req[r].pc = "done" /\ req[r].row.schema = k /\ ~Got(r)

----------------------------------------------------------------------------
(* Claims on createTenant *)

\* Call c returns its error to the caller in this step, from inside the try
\* block or its catch block.
FailsNow(c) ==
    /\ ct[c].pc \notin {"idle", "done"}
    /\ ct'[c].pc = "done"
    /\ ct'[c].result = "failed"

\* C8: when createTenant fails at one of its steps, then at the moment the
\* error is returned no registry row of the call is left, the schema that the
\* call created no longer exists, and the cache has no entry for the derived
\* schema, also when a compensation step itself fails.
C8_FailedCreateLeavesNothing ==
    [][\A c \in Calls :
         FailsNow(c) =>
            /\ \A t \in registry' : t.tx # c
            /\ ct'[c].made => storage'[ct'[c].schema] = "none"
            /\ ct'[c].schema \notin DOMAIN tenantModels'
            /\ ct'[c].schema \notin DOMAIN loadedAt']_vars

\* Both calls have ended, and no storage operation of either failed for a
\* reason other than the unique constraints of the registry.
RacedCleanly(c, d) ==
    /\ c # d
    /\ ct[c].pc = "done" /\ ct[d].pc = "done"
    /\ ct[c].name = ct[d].name
    /\ ct[c].err \in {"none", "unique"} /\ ct[d].err \in {"none", "unique"}

\* C9: of two concurrent createTenant calls with the same name exactly one
\* returns a tenant and the other fails on the unique constraint, the registry
\* ends with one row for the name, and the winner's schema and cache entry
\* are intact after the loser's compensation.
C9_OneWinnerIntact ==
    \A c \in Calls : \A d \in Calls :
        (RacedCleanly(c, d) /\ ct[c].result = "ok") =>
            /\ ct[d].result = "failed" /\ ct[d].err = "unique"
            /\ Cardinality({t \in registry : t.name = ct[c].name}) = 1
            /\ storage[ct[c].schema] = "tables"
            /\ ct[c].schema \in DOMAIN tenantModels
            /\ tenantModels[ct[c].schema].tenantId = ct[c].tenantEntry

----------------------------------------------------------------------------
(* Claims on the request pipeline *)

\* The token that request r presents.
Presented(r) == extractTokenFromHeader(req[r].authorization)

\* Request r is bound to a tenant and presents a token whose tenantId claim
\* names another tenant.
CrossTenant(r) ==
    /\ Bound(r)
    /\ Presented(r).tenantId # 0
    /\ Presented(r).tenantId # req[r].tenant.id

\* The payload has userId, email, role and tenantId.
Complete(token) ==
    token.userId # 0 /\ token.email /\ token.role # "none" /\ token.tenantId # 0

\* The JWT middleware has rejected r with the status and code, attached no
\* actor and not called next.
JwtRejected(q, status, code) ==
    /\ q.pc = "done"
    /\ q.sent = <<[stage |-> "jwt", status |-> status, code |-> code]>>
    /\ q.user = NoUser
    /\ \A i \in DOMAIN q.nexts : q.nexts[i] # "jwt"
    /\ q.ran[Len(q.ran)] = "jwt"

\* C2 (as amended): when a request resolved to tenant B presents a token that
\* passes verification (signature, not-before and expiry) and whose tenantId
\* claim is A with A # B.id, the JWT middleware rejects it, attaches no actor
\* and does not call next: with 403 TOKEN_TENANT_MISMATCH when the payload
\* also has userId, email and role, and with 401 TOKEN_INVALID_PAYLOAD when
\* one of them is missing.
C2_CrossTenantRejected ==
    [][\A r \in Reqs :
         (At(r, "jwt") /\ req'[r] # req[r] /\ CrossTenant(r)
            /\ verifyToken(Presented(r), now) = "ok") =>
              IF Complete(Presented(r))
              THEN JwtRejected(req'[r], 403, "TOKEN_TENANT_MISMATCH")
              ELSE JwtRejected(req'[r], 401, "TOKEN_INVALID_PAYLOAD")]_vars

\* A request resolved to tenant "b" presented a token that login issued for
\* tenant "ab" and was rejected with TOKEN_TENANT_MISMATCH.
C2_Witness ==
    /\ req["r1"].tenant.id = 1
    /\ Presented("r1") \in Minted(now)
    /\ Presented("r1").tenantId = 2
    /\ JwtRejected(req["r1"], 403, "TOKEN_TENANT_MISMATCH")

\* C2 (as stated): when a request resolved to tenant B presents a token that
\* passes signature and expiry verification and whose tenantId claim is A with
\* A # B.id, the JWT middleware rejects it with 403 TOKEN_TENANT_MISMATCH,
\* attaches no actor and does not call next.
C2_AlwaysTenantMismatch ==
    [][\A r \in Reqs :
         (At(r, "jwt") /\ req'[r] # req[r] /\ CrossTenant(r)
            /\ Presented(r).sig = "ok" /\ now < Presented(r).exp) =>
              JwtRejected(req'[r], 403, "TOKEN_TENANT_MISMATCH")]_vars

\* The authorization policies: rbac.admin, rbac.manager, rbac.user,
\* rbac.ownerOrAdmin, rbac.ownerOrManager and the check written in a route.
Policies == {"admin", "manager", "user", "ownerOrAdmin", "ownerOrManager", "inline"}

\* C3: on every route under /api/users and /api/employees the handler is
\* invoked only after the tenant middleware bound a tenant context, then the
\* JWT middleware authenticated an actor whose tenant claim matches it, then
\* an authorization policy middleware passed.
C3_HandlerAfterThreeStages ==
    \A r \in Reqs :
        LET q == req[r]
        IN  (\E h \in DOMAIN q.ran : q.ran[h] = "handler") =>
              /\ Bound(r)
              /\ q.user # NoUser
              /\ q.user.tenantId = q.tenant.id
              /\ \E i \in DOMAIN q.nexts, j \in DOMAIN q.nexts, k \in DOMAIN q.nexts :
                    /\ i < j /\ j < k
                    /\ q.nexts[i] = "tenant"
                    /\ q.nexts[j] = "jwt"
                    /\ q.nexts[k] \in Policies

\* The tenant middleware, the JWT middleware and the RBAC policies.
Guards == {"tenant", "jwt", "admin", "manager", "user", "ownerOrAdmin",
           "ownerOrManager"}

Sends(q, s) == Cardinality({i \in DOMAIN q.sent : q.sent[i].stage = s})
CallsNext(q, s) == Cardinality({i \in DOMAIN q.nexts : q.nexts[i] = s})

\* C4: each of the tenant middleware, the JWT middleware and the RBAC policy
\* middlewares that has run for a request has either sent one response and
\* not called next, or called next once and sent no response; after a
\* rejection nothing else runs for the request.
C4_RespondOrNextOnce ==
    \A r \in Reqs :
        LET q == req[r]
        IN  /\ \A s \in Guards :
                 IF \E i \in DOMAIN q.ran : q.ran[i] = s
                 THEN Sends(q, s) + CallsNext(q, s) = 1
                 ELSE Sends(q, s) = 0 /\ CallsNext(q, s) = 0
            /\ \A i \in DOMAIN q.ran :
                 (q.ran[i] \in Guards /\ Sends(q, q.ran[i]) > 0) =>
                    /\ i = Len(q.ran)
                    /\ q.pc = "done"
                    /\ Len(q.sent) = 1

\* A request passed the tenant and the JWT middleware and was rejected by a
\* minimum-role policy.
C4_Witness ==
    LET q == req["r1"]
    IN  /\ q.pc = "done"
        /\ Len(q.nexts) >= 2 /\ q.nexts[1] = "tenant" /\ q.nexts[2] = "jwt"
        /\ Len(q.sent) = 1 /\ q.sent[1].stage \in {"manager", "user"}
        /\ q.sent[1].code = "INSUFFICIENT_PERMISSIONS"

----------------------------------------------------------------------------
(* Claims on requireOwnershipOrRole *)

\* The ownership-or-role policy of the route of q has run.
OwnerRan(q) == \E i \in DOMAIN q.ran : q.ran[i] \in OwnerPolicies

\* "pass" when the policy called next, else the code of its response.
OwnerOutcome(q) ==
    IF \E i \in DOMAIN q.nexts : q.nexts[i] \in OwnerPolicies
    THEN "pass"
    ELSE q.sent[CHOOSE i \in DOMAIN q.sent : q.sent[i].stage \in OwnerPolicies].code

\* The minimum role of the policy of the route of q.
OwnerMinimum(q) ==
    OwnerMinimumRole(CHOOSE p \in OwnerPolicies :
                        \E i \in DOMAIN Chain(q.route) : Chain(q.route)[i] = p)

\* The values of userId in the path parameters, the body and the query.
OwnerLocations(q) == <<ParamsField(q, "userId"), q.body, q.query>>

First(S) == CHOOSE i \in S : \A j \in S : i <= j

----------------------------------------------------------------------------
(* Claims on the policy middlewares *)

\* The policy middleware has been called on q.
PolicyCalled(q) == q.policy # NoPolicy /\ q.ran # <<>>

\* It called next and sent nothing.
PolicyPassed(q) == q.nexts = <<q.policy.name>> /\ q.sent = <<>>

\* It sent the status and code and did not call next.
PolicyRejected(q, status, code) ==
    /\ q.nexts = <<>>
    /\ q.sent = <<[stage |-> q.policy.name, status |-> status, code |-> code]>>

\* user = 1 < manager = 2 < admin = 3, any other role 0
Level(role) ==
    IF role = "user" THEN 1 ELSE IF role = "manager" THEN 2
    ELSE IF role = "admin" THEN 3 ELSE 0

\* C11: requireMinimumRole(minRole) passes an authenticated actor iff
\* level(actor.role) >= level(minRole), with user = 1 < manager = 2 <
\* admin = 3: for minRole manager it rejects user and accepts manager and
\* admin, and an actor with a role outside the three is rejected for every
\* minRole of the hierarchy.
C11_MinimumRoleByLevel ==
    \A r \in Reqs :
        LET q == req[r]
            m == q.policy.minimumRole
        IN  (PolicyCalled(q) /\ q.policy.name = "requireMinimumRole"
               /\ q.user # NoUser) =>
              /\ PolicyPassed(q) <=> Level(q.user.role) >= Level(m)
              /\ PolicyPassed(q) \/ PolicyRejected(q, 403, "INSUFFICIENT_PERMISSIONS")
              /\ m = "manager" => (PolicyPassed(q) <=> q.user.role \in {"manager", "admin"})
              /\ q.user.role \notin Roles => ~PolicyPassed(q)

\* requireMinimumRole('admin') has passed an admin.
C11_Witness ==
    LET q == req["r1"]
    IN  /\ PolicyCalled(q) /\ q.policy.name = "requireMinimumRole"
        /\ q.policy.minimumRole = "admin" /\ q.user.role = "admin"
        /\ PolicyPassed(q)

\* The statuses and codes with which a policy rejects an authenticated actor.
PolicyDenials ==
    {<<403, "INSUFFICIENT_ROLE">>, <<403, "INSUFFICIENT_PERMISSIONS">>,
     <<403, "OWNERSHIP_UNKNOWN">>, <<403, "INSUFFICIENT_PERMISSIONS_OR_OWNERSHIP">>,
     <<403, "ACCOUNT_INACTIVE">>, <<404, "USER_NOT_FOUND">>,
     <<500, "USER_STATUS_ERROR">>}

----------------------------------------------------------------------------
(* Claims on the rejections of tenant resolution *)

\* The tenant middleware rejects r in this step.
TenantRejects(r) ==
    /\ req[r].pc \in {"tenant", "find", "probe"}
    /\ req'[r].pc = "done"

\* The status of the response that ended r.
Status(q) == q.sent[Len(q.sent)].status

\* The header is missing or fails [A-Za-z0-9_-]{1,50}.
BadHeader(h) == h = <<>> \/ ~MatchesNameRegex(h) \/ Len(h) > MaxHeaderLen

\* C13: tenant resolution rejects with a distinct status per cause: a
\* missing or malformed header with 400, no registry row with 404, an
\* inactive tenant with 403, and a failed liveness probe with 503, which
\* differs from the 404 of not found and from the 500 of an unexpected
\* internal error (TENANT_ID_MISSING, TENANT_ID_INVALID, TENANT_NOT_FOUND,
\* TENANT_INACTIVE, TENANT_STORAGE_UNAVAILABLE).
C13_StatusPerCause ==
    [][\A r \in Reqs :
         TenantRejects(r) =>
            LET q == req[r]
                s == Status(req'[r])
            IN  /\ q.pc = "tenant" => BadHeader(q.header) /\ s = 400
                /\ (q.pc = "find" /\ s # 500) =>
                      IF findOne(q.header) = NoTenant THEN s = 404 ELSE s = 403
                /\ q.pc = "probe" => s = 503]_vars

\* C15: a resolution that is rejected because the header is missing or
\* malformed, the tenant is unknown or the tenant is inactive never calls
\* getModels: both maps of the cache are the same before and after, no
\* construction runs, and an inactive tenant is answered 403.
C15_RejectionLeavesCache ==
    [][\A r \in Reqs :
         LET q == req[r]
             early == \/ q.pc = "tenant"
                      \/ q.pc = "find" /\ \/ findOne(q.header) = NoTenant
                                          \/ ~findOne(q.header).isActive
         IN  (TenantRejects(r) /\ early) =>
                /\ tenantModels' = tenantModels
                /\ loadedAt' = loadedAt
                /\ loads' = loads
                /\ initCalls' = initCalls
                /\ (q.pc = "find" /\ findOne(q.header) # NoTenant) =>
                      Status(req'[r]) \in {403, 500}]_vars

\* A request for the deactivated tenant was answered 403 while the cache
\* holds the entry of the other tenant and none for the deactivated one.
C15_Witness ==
    /\ req["r1"].pc = "done" /\ req["r1"].header = NameAb
    /\ Status(req["r1"]) = 403
    /\ DOMAIN tenantModels = {TenantB.schema}

----------------------------------------------------------------------------
(* Claims on the rejections of the authentication stage *)

\* The status and code of the response that ended q.
Reported(q) ==
    [status |-> q.sent[Len(q.sent)].status, code |-> q.sent[Len(q.sent)].code]

\* The status and code that the claim gives to each cause.
ByCause(cause) ==
    CASE cause = "none"                 -> [status |-> 401, code |-> "TOKEN_MISSING"]
      [] cause = "Token has expired"    -> [status |-> 401, code |-> "TOKEN_EXPIRED"]
      [] cause = "Invalid token"        -> [status |-> 401, code |-> "TOKEN_INVALID"]
      [] cause = "Token not active yet" -> [status |-> 403, code |-> "TOKEN_NOT_ACTIVE"]
      [] OTHER                          -> [status |-> 403, code |-> "TOKEN_TENANT_MISMATCH"]

\* C14: every rejection in the authentication stage carries TOKEN_MISSING
\* (401), TOKEN_EXPIRED (401), TOKEN_INVALID (401), TOKEN_NOT_ACTIVE (403) or
\* TOKEN_TENANT_MISMATCH (403), chosen by cause, and the error handler
\* reports the same status and code for the same cause.
C14_OneCodePerCause ==
    [][\A r \in Reqs :
         (At(r, "jwt") /\ req'[r].pc = "done") =>
            LET token == Presented(r)
                cause == IF token = NoToken THEN "none" ELSE verifyToken(token, now)
            IN  /\ Reported(req'[r]) = ByCause(cause)
                /\ ErrorName(cause) # "none" =>
                      handleJWTError(ErrorName(cause)) = Reported(req'[r])]_vars

----------------------------------------------------------------------------
(* Claims on repeated resolutions *)

\* C16: two successful resolutions of one tenant name, with no createTenant,
\* deleteTenant or deactivation between them, bind the same tenant id and the
\* same schema, whether the cache entry was absent or present when they ran;
\* the bound pair is the registry row of the name.
C16_SameTenantEachTime ==
    \A r \in Reqs : \A s \in Reqs :
        (Bound(r) /\ Bound(s) /\ req[r].header = req[s].header) =>
            /\ req[r].tenant.id = req[s].tenant.id
            /\ req[r].tenant.schema = req[s].tenant.schema
            /\ req[r].tenant.id = findOne(req[r].header).id
            /\ req[r].tenant.schema = findOne(req[r].header).schema

\* Two requests are bound under one name; the key was constructed twice, so
\* one resolution ran before a reload and one after it, and at least one of
\* them found the entry absent.
C16_Witness ==
    /\ Bound("r1") /\ Bound("r2")
    /\ req["r1"].header = req["r2"].header
    /\ initCalls[req["r1"].tenant.schema].all >= 2
    /\ req["r1"].tenant.cacheInfo # req["r2"].tenant.cacheInfo

----------------------------------------------------------------------------
(* Claims on the methods of the cache service *)

\* A step that is a direct call of a method of the cache service: it leaves the
\* requests and the clock alone; ret' is what the call returns.
Calling(op) ==
    /\ ret'.op = op
    /\ now' = now /\ req' = req
    /\ vars' # vars

\* C17: clearSchema(k) returns true exactly when the cache held an entry for k
\* immediately before the call; after the call neither Map has an entry for
\* k, and the entries of every other key are unchanged.
C17_ClearSchema ==
    /\ [](DOMAIN tenantModels = DOMAIN loadedAt)
    /\ [][\A k \in ServiceKeys :
            (Calling("clearSchema") /\ ret'.key = k) =>
               /\ ret'.value = (k \in DOMAIN tenantModels)
               /\ k \notin DOMAIN tenantModels'
               /\ k \notin DOMAIN loadedAt'
               /\ \A j \in DOMAIN tenantModels \ {k} :
                     /\ j \in DOMAIN tenantModels' /\ j \in DOMAIN loadedAt'
                     /\ tenantModels'[j] = tenantModels[j]
                     /\ loadedAt'[j] = loadedAt[j]
               /\ DOMAIN tenantModels' \subseteq DOMAIN tenantModels]_vars

\* clearSchema has just returned true for one key, and the other key is still
\* in the cache.
C17_Witness ==
    /\ ret.op = "clearSchema" /\ ret.value = TRUE
    /\ DOMAIN tenantModels = ServiceKeys \ {ret.key}

\* The call that this step makes removes or replaces entries by its contract.
Removes(k) ==
    \/ Calling("clearSchema") /\ ret'.key = k
    \/ Calling("reloadSchema") /\ ret'.key = k
    \/ Calling("clearAll")

\* C18: an entry that the cache holds for k stays the same entry, with the same
\* ModelSet and the same load time, in every step that is not clearSchema(k),
\* reloadSchema(k) or clearAll(): no resolution of a tenant, no getModels,
\* getStats, getCacheEntry, hasModels or getStaleEntries call, and no passage
\* of time removes or replaces it.
C18_EntryStaysUntilCleared ==
    [][\A k \in DOMAIN tenantModels :
         ~Removes(k) =>
            /\ k \in DOMAIN tenantModels' /\ k \in DOMAIN loadedAt'
            /\ tenantModels'[k] = tenantModels[k]
            /\ loadedAt'[k] = loadedAt[k]]_vars

\* An entry loaded at time 0 is still cached at the end of time, getStaleEntries
\* has just reported it stale, and a request was bound to its ModelSet.
C18_Witness ==
    /\ now = MaxNow
    /\ ret.op = "getStaleEntries"
    /\ DeriveSchema(NameB) \in ret.value
    /\ DeriveSchema(NameB) \in DOMAIN tenantModels
    /\ loadedAt[DeriveSchema(NameB)] = 0
    /\ Bound("r1")
    /\ req["r1"].tenant.models = tenantModels[DeriveSchema(NameB)].models

----------------------------------------------------------------------------
(* Claims on deleteTenant *)

\* deleteTenant returns to its caller in this step without an error.
DeleteReturns == dt.pc # "done" /\ dt'.pc = "done" /\ dt'.result = "ok"

\* C19: when deleteTenant(id) returns without an error, the registry has no
\* row for id, the tenant's schema does not exist, the cache has no entry for
\* the schema, and a resolution of the tenant's name finds nothing.
C19_DeletedEverywhere ==
    [][DeleteReturns =>
         /\ findByPk(dt.id)' = NoTenant
         /\ \A t \in registry' : t.id # dt.id
         /\ storage'[dt.tenant.schema] = "none"
         /\ dt.tenant.schema \notin DOMAIN tenantModels'
         /\ dt.tenant.schema \notin DOMAIN loadedAt'
         /\ findOne(dt.tenant.name)' = NoTenant]_vars

\* The error that deleteTenant throws when findByPk finds no row, and the ones
\* it throws when dropSchema fails: the catch block wraps whatever was thrown
\* in one Error whose message is a fixed prefix and the message of the cause.
NotFoundError == "Tenant not found"
DropSchemaErrors == {"db"}

\* C20: when deleteTenant has dropped the schema and the removal of the row
\* then fails, the error of the call differs from the error of every other
\* failure of deleteTenant (tenant not found, schema drop failed).
C20_RowRemovalFailureDistinct ==
    [][(dt.pc = "destroy" /\ dt'.pc = "rollback") =>
          /\ storage[dt.tenant.schema] = "none"
          /\ dt'.err # "none"
          /\ dt'.err # NotFoundError
          /\ dt'.err \notin DropSchemaErrors]_vars

----------------------------------------------------------------------------
(* Claims on the schema of a tenant *)

\* The name in lower case without the characters outside [a-z0-9_], one
\* character after the other.
RECURSIVE Stripped(_)
Stripped(name) ==
    IF name = <<>> THEN <<>>
    ELSE LET c == LowerChar(Head(name))
         IN  (IF IsSchemaChar(c) THEN <<c>> ELSE <<>>) \o Stripped(Tail(name))

\* C21: the schema of every tenant of the registry is its name in lower case
\* with every character outside [a-z0-9_] removed (A-b gives ab), and no step
\* of the program changes the name or the schema of a tenant that stays in
\* the registry.
C21_SchemaDerivedAndFixed ==
    /\ [](\A t \in registry : t.schema = Stripped(t.name))
    /\ [](\A t \in registry : t.name = NameADashB => t.schema = NameAb)
    /\ [][\A t \in registry : \A u \in registry' :
            t.id = u.id => (u.schema = t.schema /\ u.name = t.name)]_vars

\* createTenant has committed a tenant under the name A-b.
C21_Witness ==
    \E t \in registry :
        /\ t.name = NameADashB /\ t.tx = "none"
        /\ ct["c1"].result = "ok" /\ ct["c1"].tenantEntry = t.id

----------------------------------------------------------------------------
(* Claims on POST /api/tenants *)

\* A step of the createTenant request c.
StepOf(c) == ct'[c] # ct[c] /\ ct'[c].post.on

\* The step changes neither the registry nor the storage nor the cache.
LeavesTenantsAlone ==
    /\ registry' = registry /\ nextId' = nextId
    /\ storage' = storage
    /\ tenantModels' = tenantModels /\ loadedAt' = loadedAt

\* C22: a createTenant request whose name derives a reserved word (public,
\* information_schema, pg_catalog, pg_toast) fails with a Conflict error (409);
\* no step of it changes the registry, the storage schemas or the cache, and
\* afterwards a lookup of the name finds no tenant.
C22_ReservedIsConflict ==
    [][\A c \in Calls :
         (StepOf(c) /\ DeriveSchema(ct'[c].post.name) \in reservedWords) =>
            /\ LeavesTenantsAlone
            /\ ct'[c].pc \in {"unique", "done"}
            /\ ct'[c].pc = "done" => ct'[c].result # "ok"
            /\ ct'[c].post.status # 0 =>
                  /\ findOne(ct[c].post.name)' = NoTenant
                  /\ ct'[c].post.status = 409]_vars

\* [A-Za-z0-9_-], 2 to 50 characters
WellFormed(name) ==
    /\ Len(name) \in 2..50
    /\ \A i \in 1..Len(name) :
          name[i] \in LowerChars \cup UpperChars \cup DigitChars \cup {"_", "-"}

----------------------------------------------------------------------------
(* Error responses: errorHandler and the catch blocks of the middlewares *)

\* process.env.NODE_ENV
Envs == {"production", "development", "test", "unset"}

\* err.message of an error that the program did not make itself
Detail == "internal detail"

\* An error object: statusCode 0 and code "none" stand for absent properties.
Err(name, message, statusCode, code, api, isOperational) ==
    [name |-> name, message |-> message, statusCode |-> statusCode, code |-> code,
     api |-> api, isOperational |-> isOperational]

\* new APIError(message, statusCode, code)
APIError(message, statusCode, code) ==
    Err("APIError", message, statusCode, code, TRUE, TRUE)

NoError == Err("none", "none", 0, "none", FALSE, FALSE)

\* handleDatabaseError(err)
handleDatabaseError(err) ==
    CASE err.name = "SequelizeValidationError" ->
            APIError("Database validation failed", 400, "DATABASE_VALIDATION_ERROR")
      [] err.name = "SequelizeUniqueConstraintError" ->
            APIError("field already exists", 409, "DUPLICATE_ENTRY")
      [] err.name = "SequelizeConnectionError" ->
            APIError("Database connection failed", 503, "DATABASE_CONNECTION_ERROR")
      [] err.name = "SequelizeTimeoutError" ->
            APIError("Database operation timed out", 504, "DATABASE_TIMEOUT")
      [] err.name = "SequelizeForeignKeyConstraintError" ->
            APIError("Referenced record does not exist", 400, "FOREIGN_KEY_CONSTRAINT")
      [] OTHER -> NoError

\* handleJWTError(err) as an APIError
handleJWTErrorAsApi(err) ==
    CASE err.name = "JsonWebTokenError" ->
            APIError("Invalid token", handleJWTError(err.name).status,
                     handleJWTError(err.name).code)
      [] err.name = "TokenExpiredError" ->
            APIError("Token has expired", handleJWTError(err.name).status,
                     handleJWTError(err.name).code)
      [] err.name = "NotBeforeError" ->
            APIError("Token not active yet", handleJWTError(err.name).status,
                     handleJWTError(err.name).code)
      [] OTHER -> NoError

\* handleGenericError(err); the SyntaxError is the one of the body parser
handleGenericError(err) ==
    CASE err.name = "CastError" -> APIError("Invalid path: value", 400, "INVALID_PARAMETER")
      [] err.name = "SyntaxError" /\ err.statusCode = 400 ->
            APIError("Invalid JSON in request body", 400, "INVALID_JSON")
      [] OTHER -> NoError

\* A response body with its status; stack: whether err.stack is in it.
Response(status, error, code, details, stack) ==
    [status |-> status, error |-> error, code |-> code, details |-> details,
     stack |-> stack]

Or(value, default, absent) == IF value = absent THEN default ELSE value

sendErrorDev(err) ==
    Response(Or(err.statusCode, 500, 0), err.message, Or(err.code, "INTERNAL_ERROR", "none"),
             "none", TRUE)

sendErrorProd(err) ==
    IF err.isOperational
    THEN Response(Or(err.statusCode, 500, 0), err.message,
                  Or(err.code, "INTERNAL_ERROR", "none"), "none", FALSE)
    ELSE Response(500, "Something went wrong", "INTERNAL_ERROR", "none", FALSE)

\* errorHandler(err, req, res, next)
errorHandler(err, env) ==
    LET e == [err EXCEPT !.statusCode = Or(@, 500, 0)]
        handledError ==
            IF handleDatabaseError(e) # NoError THEN handleDatabaseError(e)
            ELSE IF handleJWTErrorAsApi(e) # NoError THEN handleJWTErrorAsApi(e)
            ELSE IF handleGenericError(e) # NoError THEN handleGenericError(e)
            ELSE e
        ensured ==
            IF ~handledError.api /\ ~handledError.isOperational
            THEN [APIError(handledError.message, Or(handledError.statusCode, 500, 0),
                           Or(handledError.code, "INTERNAL_ERROR", "none"))
                    EXCEPT !.isOperational = FALSE]
            ELSE handledError
    IN  IF env = "development" THEN sendErrorDev(ensured) ELSE sendErrorProd(ensured)

\* The response of each place that turns an error into a response.
ErrorBoundary(boundary, err, env) ==
    CASE boundary = "errorHandler" -> errorHandler(err, env)
      [] boundary = "tenantMiddleware" ->
            Response(500, IF env = "production" THEN "Internal server error" ELSE err.message,
                     "none", "none", FALSE)
      [] boundary = "tenantMiddleware models" ->
            Response(500, "Tenant database schema error. Please contact support.", "none",
                     IF env = "development" THEN err.message ELSE "none", FALSE)
      [] boundary = "jwtMiddleware" ->
            Response(500, IF env = "production" THEN "Authentication error" ELSE err.message,
                     "AUTH_ERROR", "none", FALSE)
      [] boundary = "requireOwnershipOrRole" ->
            Response(500, "Authorization error", "RBAC_ERROR", "none", FALSE)
      [] boundary = "requireActiveUser" ->
            Response(500, "User status verification error", "USER_STATUS_ERROR", "none", FALSE)

Boundaries == {"errorHandler", "tenantMiddleware", "tenantMiddleware models",
               "jwtMiddleware", "requireOwnershipOrRole", "requireActiveUser"}

\* The errors that reach the boundaries.
Errors ==
    { Err("Error", Detail, 0, "none", FALSE, FALSE),
      Err("TypeError", Detail, 0, "none", FALSE, FALSE),
      Err("Error", Detail, 418, "CUSTOM", FALSE, FALSE),
      Err("Error", "operational", 422, "CUSTOM", FALSE, TRUE),
      APIError("Route not found", 404, "ROUTE_NOT_FOUND"),
      Err("SyntaxError", Detail, 400, "none", FALSE, FALSE),
      Err("SyntaxError", Detail, 0, "none", FALSE, FALSE),
      Err("CastError", Detail, 0, "none", FALSE, FALSE) }
    \cup { Err(n, Detail, 0, "none", FALSE, FALSE) :
              n \in {"SequelizeValidationError", "SequelizeUniqueConstraintError",
                     "SequelizeConnectionError", "SequelizeTimeoutError",
                     "SequelizeForeignKeyConstraintError", "JsonWebTokenError",
                     "TokenExpiredError", "NotBeforeError"} }

\* An error reaches a boundary, which answers.
Fail(boundary, err, env) ==
    /\ Returns(boundary, <<>>, [env |-> env, err |-> err,
                                res |-> ErrorBoundary(boundary, err, env)])
    /\ UNCHANGED <<tenantModels, loadedAt, loads, initCalls>>
    /\ UNCHANGED OtherThanCache

NextErrors == \E b \in Boundaries, e \in Errors, env \in Envs : Fail(b, e, env)

SpecErrors == InitAb /\ [][NextErrors]_vars

----------------------------------------------------------------------------
(* Claims on error responses *)

\* The error is none of the kinds that the program knows how to report.
Unknown(err) ==
    /\ ~err.api /\ ~err.isOperational
    /\ handleDatabaseError(err) = NoError
    /\ handleJWTErrorAsApi(err) = NoError
    /\ handleGenericError([err EXCEPT !.statusCode = Or(@, 500, 0)]) = NoError

GenericCodes == {"INTERNAL_ERROR", "AUTH_ERROR", "RBAC_ERROR", "USER_STATUS_ERROR", "none"}

\* C24: at every place that turns an error into a response, and for every
\* NODE_ENV, the response to an error of no known kind has a generic message
\* and a generic code and carries neither the error's message nor its stack.
C24_NoInternalDetail ==
    (ret.op \in Boundaries /\ Unknown(ret.value.err)) =>
        /\ ret.value.res.error # ret.value.err.message
        /\ ret.value.res.details # ret.value.err.message
        /\ ~ret.value.res.stack
        /\ ret.value.res.code \in GenericCodes
        /\ ret.value.res.status = 500

----------------------------------------------------------------------------
(* Claims on the actor of a request *)

\* C25: whatever middleware set req.user from a token, jwtMiddleware.optional
\* included, the actor of a request that is bound to a tenant carries the id
\* of that tenant: no request has an actor from a token minted for another
\* tenant.
C25_ActorOfBoundTenant ==
    \A r \in Reqs :
        (Bound(r) /\ req[r].user # NoUser) =>
            req[r].user.tenantId = req[r].tenant.id

\* The two routes on one employee that an ownership-or-role policy guards.
EmployeeOwnerRoutes == {"GET /api/employees/:employeeId", "PUT /api/employees/:employeeId"}

\* C26: on GET and PUT /api/employees/:employeeId an authenticated actor
\* below the minimum role of the route passes the ownership-or-role policy
\* exactly when the actor's id equals the employeeId of the path, whatever
\* userId the body or the query carries.
C26_EmployeePathDecides ==
    \A r \in Reqs :
        LET q == req[r]
            id == parseInt(ParamsField(q, "employeeId"))
        IN  (/\ q.route \in EmployeeOwnerRoutes
             /\ OwnerRan(q)
             /\ ROLE_HIERARCHY(q.user.role) < ROLE_HIERARCHY(OwnerMinimum(q))) =>
                ((OwnerOutcome(q) = "pass") <=> (~id.nan /\ id.n = q.user.userId))

----------------------------------------------------------------------------
(* Claims on the tokens of login *)

\* The middleware s of the route of q has run, and has called next.
Ran(q, s) == \E i \in DOMAIN q.ran : q.ran[i] = s
Passed(q, s) == \E i \in DOMAIN q.nexts : q.nexts[i] = s

\* C27: a token that login handed out authenticates, with the role it was
\* issued with, every request that resolves to its tenant before the token
\* expires, and the role policies decide on that role: a later change of the
\* stored role, a deactivation or a deletion of the user changes neither.
C27_TokenKeepsItsRole ==
    /\ [][\A r \in Reqs :
            LET tok == req[r].authorization.token
            IN  (/\ At(r, "jwt") /\ req'[r] # req[r]
                 /\ tok \in tokens
                 /\ req[r].tenant.id = tok.tenantId
                 /\ now < tok.exp) =>
                    /\ req'[r].pc = "chain"
                    /\ req'[r].user = [userId |-> tok.userId, role |-> tok.role,
                                       tenantId |-> tok.tenantId]]_vars
    /\ [](\A r \in Reqs :
            LET q == req[r]
                tok == q.authorization.token
            IN  q.user # NoUser =>
                  /\ q.user.role = tok.role
                  /\ Ran(q, "admin") => (Passed(q, "admin") <=> tok.role = "admin")
                  /\ \A s \in {"manager", "user"} :
                        Ran(q, s) => (Passed(q, s) <=> hasPermission(tok.role, s)))

\* A request passed rbac.admin on its token after the stored user stopped
\* being an active admin.
C27_Witness ==
    LET q == req["r1"]
    IN  /\ q.user # NoUser /\ Passed(q, "admin")
        /\ q.pc = "done"
        /\ ~\E u \in users[TenantB.schema] : u.role = "admin" /\ u.isActive

----------------------------------------------------------------------------
(* Claims on the liveness probe *)

\* C28: when tenantMiddleware rejects a request at the probe because the
\* schema of the tenant does not exist in storage, the cache holds no entry
\* under that schema after the rejection, so that the next resolution
\* constructs the ModelSet again.
C28_FailedProbeEvicts ==
    [][\A r \in Reqs :
         (/\ req[r].pc = "probe" /\ req'[r].pc = "done"
          /\ storage[req[r].models.schema] = "none") =>
             req[r].row.schema \notin DOMAIN tenantModels']_vars

----------------------------------------------------------------------------
(* Claims on deleteTenant beside requests *)

\* No request is inside tenantMiddleware.
NoneInFlight == \A r \in Reqs : req[r].pc \in {"idle", "chain", "done"}

\* C29: whatever the interleaving of deleteTenant(t) with the requests that
\* resolve t, once deleteTenant has returned without an error and no request
\* is in flight, the cache holds no entry under the schema of t.
C29_NoEntryAfterDelete ==
    (dt.pc = "done" /\ dt.result = "ok" /\ NoneInFlight) =>
        /\ dt.tenant.schema \notin DOMAIN tenantModels
        /\ dt.tenant.schema \notin DOMAIN loadedAt

----------------------------------------------------------------------------
(* Claims on a failing createTenant beside other tenants *)

\* Call c takes a step of its catch block.
Compensates(c) == ct[c].pc \in {"rollback", "cleanup"} /\ ct'[c] # ct[c]

\* C30: the compensation of a failing createTenant leaves every committed
\* tenant as it is, one with the same derived schema included: its registry
\* row, its schema with the tables, and its cache entry.
C30_FailureSparesOthers ==
    [][\A c \in Calls :
         Compensates(c) =>
            \A t \in registry :
               (t.tx = "none" /\ t.del = "none") =>
                  /\ t \in registry'
                  /\ storage'[t.schema] = storage[t.schema]
                  /\ t.schema \in DOMAIN tenantModels =>
                        /\ t.schema \in DOMAIN tenantModels'
                        /\ tenantModels'[t.schema] = tenantModels[t.schema]]_vars

====
